---- MODULE Spec2Model ----
(***************************************************************************)
(* Interaction state machine of the ultrasound viewer's annotation overlay *)
(* (src/src/annotations.py, class AnnotationOverlay) together with the     *)
(* layer panel and the main window's wiring of the overlay's signals       *)
(* (src/src/qt_gui.py).                                                    *)
(***************************************************************************)
EXTENDS Integers, Sequences, FiniteSets, TLC

\* ------------------------------------------------------------------ bounds
\* pointer positions are the widget pixels (i, 2i), 0 <= i <= MaxPos
MaxPos == 1
\* number of shape objects constructed in one run
MaxShapes == 2
\* number of points accepted into the multi-click buffer
MaxBuf == 3
\* number of distinct tools selected in one run
MaxTools == 2

Pos == {<<i, 2 * i>> : i \in 0..MaxPos}

\* ------------------------------------------------------------ tool names
\* Python's None, for the tool, object references and positions
NoTool == "None"
NoRef == 0
NoPos == <<>>

\* MEASURE_TOOLS: tool name -> Measure class
MEASURE_TOOLS ==
  [distance |-> "Distance", angle |-> "Angle", area |-> "Area",
   perimeter |-> "Perimeter", ellipse |-> "Ellipse"]

\* a tool name no branch of the overlay knows
OtherTool == "other"

\* the tools the main window hands to the overlay
GuiTools ==
  {NoTool, "wl", "line", "rectangle", "polygon",
   "distance", "angle", "area", "perimeter", "ellipse"}

AllTools == GuiTools \cup {OtherTool}

DragTools == {"line", "rectangle", "distance", "ellipse"}
MultiTools == {"polygon", "area", "perimeter"}

VARIABLES
  current_tool,          \* AnnotationOverlay.current_tool
  objects,               \* the shape objects constructed so far, by reference
  annotation_id_counter, \* Annotation._id_counter
  measure_id_counter,    \* Measure._id_counter
  annotations,           \* AnnotationOverlay.annotations (references)
  measurements,          \* AnnotationOverlay.measurements (references)
  current_annotation,    \* AnnotationOverlay.current_annotation
  current_measure,       \* AnnotationOverlay.current_measure
  is_drawing,            \* AnnotationOverlay.is_drawing
  wl_start_pos,          \* AnnotationOverlay._wl_start_pos
  multi_points,          \* AnnotationOverlay._multi_points
  panel_annotations,     \* LayerPanelWidget.annotations (references)
  add_connections,       \* connections annotation_added -> add_annotation
  emitted,               \* the signals the overlay's last handler emitted, in order
  last,                  \* the overlay's last handler
  clicks,                \* pointer-downs under a click tool since the last
                         \*   tool change or commit (history)
  pressed_since_change,  \* a pointer-down was handled since set_tool last
                         \*   changed the tool (history)
  tools_used,            \* the tools selected so far (history)
  drag,                  \* the drag under way since a pointer-down (history)
  wl_drag,               \* the W/L drag under way: where the button went
                         \*   down under 'wl', the last pointer position and
                         \*   the sum of the deltas emitted since (history)
  coord_converter,       \* FASTAnnotationManager.coord_converter, which is
                         \*   AnnotationOverlay._coord_converter
  annotation_pixel_spacing, \* Annotation._pixel_spacing
  measure_pixel_spacing, \* Measure._pixel_spacing
  current_colormap,      \* UltrasoundViewerWindow.current_colormap
  lut_overlay_enabled,   \* UltrasoundViewerWindow.lut_overlay_enabled
  lut_overlay_processor, \* UltrasoundViewerWindow.lut_overlay_processor
  lut_last_frame_id,     \* UltrasoundViewerWindow._lut_last_frame_id
  lut_last_view_matrix,  \* UltrasoundViewerWindow._lut_last_view_matrix
  fast_view,             \* the FAST view's view matrix and projection
  loaded_spacing,        \* the pixel spacing the most recently loaded image
                         \*   supplied (history)
  lut_poll,              \* the last _update_lut_overlay: what it saw and
                         \*   whether it recomputed (history)
  lut_reset,             \* the remembered frame id was reset since the last
                         \*   _update_lut_overlay (history)
  overlay_poll,          \* the last _update_annotation_overlay: the view it
                         \*   saw and whether it repainted (history)
  measured,              \* a shape object on its own and what its
                         \*   get_measurements last returned
  loading,               \* the DICOM loads started so far: each worker's
                         \*   position and _cancelled flag, the UI thread's
                         \*   event queue, and what was handled (history)
  frame_cache            \* a FrameCache: its _cache, oldest first, and what
                         \*   its last operation did (history)

vars ==
  <<current_tool, objects, annotation_id_counter, measure_id_counter,
    annotations, measurements, current_annotation, current_measure,
    is_drawing, wl_start_pos, multi_points,
    panel_annotations, add_connections, emitted, last, clicks,
    pressed_since_change, tools_used, drag, wl_drag, coord_converter,
    annotation_pixel_spacing, measure_pixel_spacing, current_colormap,
    lut_overlay_enabled, lut_overlay_processor, lut_last_frame_id,
    lut_last_view_matrix, fast_view, loaded_spacing, lut_poll, lut_reset,
    overlay_poll, measured, loading, frame_cache>>

\* the overlay, the layer panel and their history
uiVars ==
  <<current_tool, objects, annotation_id_counter, measure_id_counter,
    annotations, measurements, current_annotation, current_measure,
    is_drawing, wl_start_pos, multi_points,
    panel_annotations, add_connections, emitted, last, clicks,
    pressed_since_change, tools_used, drag, wl_drag>>

\* what no handler of the overlay or the layer panel writes
restVars ==
  <<coord_converter, annotation_pixel_spacing, measure_pixel_spacing,
    current_colormap, lut_overlay_enabled, lut_overlay_processor,
    lut_last_frame_id, lut_last_view_matrix, fast_view, loaded_spacing,
    lut_poll, lut_reset, overlay_poll, measured, loading, frame_cache>>

\* the class-level pixel spacings
spacingVars == <<annotation_pixel_spacing, measure_pixel_spacing, loaded_spacing>>

\* the LUT overlay's gate and what it polls
lutVars ==
  <<current_colormap, lut_overlay_enabled, lut_overlay_processor,
    lut_last_frame_id, lut_last_view_matrix, lut_poll, lut_reset>>

overlayVars ==
  <<current_tool, objects, annotation_id_counter, measure_id_counter,
    annotations, measurements, current_annotation, current_measure,
    is_drawing, wl_start_pos, multi_points>>

\* ----------------------------------------------------------------- signals
\* an emission: the signal's name and its arguments. preview_updated's second
\* argument, a copy of the previewed point list, is left out: no slot reads it
\* (UltrasoundViewerWindow.on_preview_updated is empty).
Sig(name, ref, tool, dw, dl) ==
  [sig |-> name, ref |-> ref, tool |-> tool, dw |-> dw, dl |-> dl]

annotation_added(ref) == Sig("annotation_added", ref, "", 0, 0)
measure_added(ref) == Sig("measure_added", ref, "", 0, 0)
wl_changed(dw, dl) == Sig("wl_changed", NoRef, "", dw, dl)
preview_updated(tool) == Sig("preview_updated", NoRef, tool, 0, 0)
preview_cleared == Sig("preview_cleared", NoRef, "", 0, 0)

\* ------------------------------------------------------------ shape objects
\* Annotation.__init__ / Measure.__init__: a fresh object, no points yet
NewShape(cls, id) == [cls |-> cls, id |-> id, points |-> <<>>, completed |-> FALSE]

\* Annotation.add_point / Measure.add_point
add_point(shape, p) == [shape EXCEPT !.points = Append(@, p)]

\* update_last_point writing the first point instead of the last
update_first_point(shape, p) ==
  IF Len(shape.points) > 0
  THEN [shape EXCEPT !.points = [@ EXCEPT ![1] = p]]
  ELSE shape

\* update_last_point appending the point instead of replacing the last
update_last_point_append(shape, p) == add_point(shape, p)

\* Annotation.update_last_point / Measure.update_last_point
update_last_point(shape, p) ==
  IF Len(shape.points) > 0
  THEN [shape EXCEPT !.points = [@ EXCEPT ![Len(@)] = p]]
  ELSE shape

\* complete() that leaves the flag as it is
complete_noop(shape) == shape

\* Annotation.complete / Measure.complete
complete(shape) == [shape EXCEPT !.completed = TRUE]

RECURSIVE AddPointsReversed(_, _)
\* the buffer copied into the shape last point first
AddPointsReversed(shape, pts) ==
  IF pts = <<>> THEN shape
  ELSE add_point(AddPointsReversed(shape, Tail(pts)), Head(pts))

RECURSIVE AddPoints(_, _)
\* for pt in self._multi_points: shape.add_point(pt[0], pt[1])
AddPoints(shape, pts) ==
  IF pts = <<>> THEN shape
  ELSE AddPoints(add_point(shape, Head(pts)), Tail(pts))

\* AnnotationOverlay._is_measure_tool
is_measure_tool(tool) == tool \in DOMAIN MEASURE_TOOLS

\* list.remove(x) guarded by `x in list`: drops the first occurrence
RECURSIVE RemoveFirst(_, _)
RemoveFirst(s, x) ==
  IF s = <<>> THEN <<>>
  ELSE IF Head(s) = x THEN Tail(s)
  ELSE <<Head(s)>> \o RemoveFirst(Tail(s), x)

RECURSIVE RemoveAll(_, _)
\* LayerPanelWidget.clear_all's loop: one remove per listed entry
RemoveAll(s, xs) ==
  IF xs = <<>> THEN s ELSE RemoveAll(RemoveFirst(s, Head(xs)), Tail(xs))

RECURSIVE Repeat(_, _)
Repeat(x, n) == IF n = 0 THEN <<>> ELSE <<x>> \o Repeat(x, n - 1)

Range(s) == {s[i] : i \in DOMAIN s}

NoDrag == [active |-> FALSE, p |-> NoPos, q |-> NoPos]
\* no pointer-down was received under 'wl' since the last pointer-up or
\* change of tool
NoWlDrag == [active |-> FALSE, press |-> NoPos, last |-> NoPos, sum |-> <<0, 0>>]

\* ------------------------------------------------------- exact fractions
\* Python's floats are modelled as fractions <<n, d>> in lowest terms, d > 0;
\* the rounding of floating-point arithmetic is not modelled.
RECURSIVE GCD(_, _)
GCD(a, b) == IF b = 0 THEN a ELSE GCD(b, a % b)

Abs(n) == IF n < 0 THEN -n ELSE n

Rat(n, d) ==
  LET g == GCD(Abs(n), Abs(d))
      s == IF d < 0 THEN -1 ELSE 1
  IN <<(s * n) \div g, (s * d) \div g>>

RatInt(n) == <<n, 1>>
RatAdd(a, b) == Rat(a[1] * b[2] + b[1] * a[2], a[2] * b[2])
RatSub(a, b) == Rat(a[1] * b[2] - b[1] * a[2], a[2] * b[2])
RatMul(a, b) == Rat(a[1] * b[1], a[2] * b[2])
\* a / b, for b # 0
RatDiv(a, b) == Rat(a[1] * b[2], a[2] * b[1])
RatLess(a, b) == a[1] * b[2] < b[1] * a[2]
RatMin(a, b) == IF RatLess(b, a) THEN b ELSE a
RatPoint(p) == <<RatInt(p[1]), RatInt(p[2])>>

\* ------------------------------------------------- the coordinate converter
\* the sizes handed to the converter are -1..MaxDim
MaxDim == 2
Dims == -1..MaxDim
\* CoordinateConverter.__init__'s default image_width and image_height
DefaultSize == 512
\* pixel spacings (mm per pixel) handed to the converter
Spacings == {RatInt(0), Rat(1, 2), RatInt(1)}
\* the points handed to the converter's mappings
ConvPoints == {<<RatInt(x), RatInt(y)>> : x, y \in 0..MaxDim}

\* _update_transform that centres with the horizontal offset only
update_transform_one_offset(c) ==
  IF c.image_width <= 0 \/ c.image_height <= 0 THEN c
  ELSE IF c.widget_width <= 0 \/ c.widget_height <= 0 THEN c
  ELSE
    LET scale == RatMin(Rat(c.widget_width, c.image_width),
                        Rat(c.widget_height, c.image_height))
        off == RatDiv(RatSub(RatInt(c.widget_width),
                             RatMul(RatInt(c.image_width), scale)), RatInt(2))
    IN [c EXCEPT !.scale = scale, !.offset_x = off, !.offset_y = off]

\* CoordinateConverter._update_transform
update_transform(c) ==
  IF c.image_width <= 0 \/ c.image_height <= 0 THEN c
  ELSE IF c.widget_width <= 0 \/ c.widget_height <= 0 THEN c
  ELSE
    LET scale_x == Rat(c.widget_width, c.image_width)
        scale_y == Rat(c.widget_height, c.image_height)
        scale == RatMin(scale_x, scale_y)
        scaled_width == RatMul(RatInt(c.image_width), scale)
        scaled_height == RatMul(RatInt(c.image_height), scale)
    IN [c EXCEPT
          !.scale = scale,
          !.offset_x = RatDiv(RatSub(RatInt(c.widget_width), scaled_width), RatInt(2)),
          !.offset_y = RatDiv(RatSub(RatInt(c.widget_height), scaled_height), RatInt(2))]

\* CoordinateConverter.__init__
CoordinateConverter(image_width, image_height, pixel_spacing) ==
  update_transform(
    [image_width |-> image_width, image_height |-> image_height,
     pixel_spacing |-> IF RatLess(RatInt(0), pixel_spacing)
                       THEN pixel_spacing ELSE RatInt(1),
     widget_width |-> image_width, widget_height |-> image_height,
     scale |-> RatInt(1), offset_x |-> RatInt(0), offset_y |-> RatInt(0)])

\* CoordinateConverter.set_image_size
set_image_size(c, width, height) ==
  update_transform([c EXCEPT !.image_width = width, !.image_height = height])

\* CoordinateConverter.set_widget_size
set_widget_size(c, width, height) ==
  update_transform([c EXCEPT !.widget_width = width, !.widget_height = height])

\* CoordinateConverter.set_pixel_spacing
set_pixel_spacing(c, spacing) ==
  [c EXCEPT !.pixel_spacing = IF RatLess(RatInt(0), spacing)
                              THEN spacing ELSE RatInt(1)]

\* FASTAnnotationManager.set_image_info
set_image_info(c, width, height, pixel_spacing) ==
  set_pixel_spacing(set_image_size(c, width, height), pixel_spacing)

\* widget_to_image subtracting the offset after the division
widget_to_image_late_offset(c, w) ==
  IF c.scale = RatInt(0) THEN w
  ELSE <<RatSub(RatDiv(w[1], c.scale), c.offset_x),
         RatSub(RatDiv(w[2], c.scale), c.offset_y)>>

\* CoordinateConverter.widget_to_image
widget_to_image(c, w) ==
  IF c.scale = RatInt(0) THEN w
  ELSE <<RatDiv(RatSub(w[1], c.offset_x), c.scale),
         RatDiv(RatSub(w[2], c.offset_y), c.scale)>>

\* AnnotationOverlay.paintEvent: image coordinates to widget coordinates
image_to_widget(c, i) ==
  <<RatAdd(RatMul(i[1], c.scale), c.offset_x),
    RatAdd(RatMul(i[2], c.scale), c.offset_y)>>

\* ------------------------------------------------------------------- Init
\* AnnotationOverlay.__init__, LayerPanelWidget.__init__, and the window's
\* constructor: setup_ui runs _sync_viewport_references, then connect_signals
\* connects annotation_added to add_annotation a second time.
InitUi ==
  /\ current_tool = NoTool
  /\ objects = <<>>
  /\ annotation_id_counter = 0
  /\ measure_id_counter = 0
  /\ annotations = <<>>
  /\ measurements = <<>>
  /\ current_annotation = NoRef
  /\ current_measure = NoRef
  /\ is_drawing = FALSE
  /\ wl_start_pos = NoPos
  /\ multi_points = <<>>
  /\ panel_annotations = <<>>
  /\ add_connections = 2
  /\ emitted = <<>>
  /\ last = "init"
  /\ clicks = <<>>
  /\ pressed_since_change = FALSE
  /\ tools_used = {}
  /\ drag = NoDrag
  /\ wl_drag = NoWlDrag

\* Python's None for an optional number, tuple or object; a value v is <<v>>
None == <<>>
Some(v) == <<v>>

\* _lut_last_frame_id before any frame was drawn
NoFrameId == -1

\* the FAST view before any zoom or pan
InitialView == [matrix |-> None, ortho |-> None, perspective |-> None]

\* no load was started: no worker, no posted event, no progress dialog
NoLoading ==
  [workers |-> <<>>, queue |-> <<>>, dialog |-> FALSE,
   cancel_handled |-> {}, applied |-> {}, applied_after_cancel |-> {}]

\* no FrameCache was constructed
NoFrameCache == [made |-> FALSE, cache |-> <<>>, max_size |-> 0, did |-> None]

\* what the constructors leave outside the overlay, the panel and the converter
InitRest ==
  /\ annotation_pixel_spacing = None
  /\ measure_pixel_spacing = None
  /\ current_colormap = "GRAYSCALE"
  /\ lut_overlay_enabled = FALSE
  /\ lut_overlay_processor = None
  /\ lut_last_frame_id = NoFrameId
  /\ lut_last_view_matrix = None
  /\ fast_view = InitialView
  /\ loaded_spacing = None
  /\ lut_poll = [seen |-> None, recomputed |-> FALSE]
  /\ lut_reset = FALSE
  /\ overlay_poll = [view |-> None, repainted |-> FALSE]
  /\ measured = [shape |-> None, result |-> None]
  /\ loading = NoLoading
  /\ frame_cache = NoFrameCache

\* the window after construction: every viewport's FASTAnnotationManager
\* holds a default CoordinateConverter
Init ==
  /\ InitUi
  /\ coord_converter = CoordinateConverter(DefaultSize, DefaultSize, RatInt(1))
  /\ InitRest

\* ------------------------------------------------------------ the overlay
\* _current_mouse_pos is written by set_tool, mouseMoveEvent and the
\* double-click handlers and read only by _draw_polygon_preview, which nothing
\* calls: no handler's behaviour depends on it and it is not part of the state.
\* the overlay object (with the two class-level id counters its handlers
\* increment) as a value; a handler maps it to the overlay it leaves behind,
\* with the signals it emitted appended to .emitted.
Self ==
  [current_tool |-> current_tool, objects |-> objects,
   annotation_id_counter |-> annotation_id_counter,
   measure_id_counter |-> measure_id_counter,
   annotations |-> annotations, measurements |-> measurements,
   current_annotation |-> current_annotation,
   current_measure |-> current_measure, is_drawing |-> is_drawing,
   wl_start_pos |-> wl_start_pos, multi_points |-> multi_points,
   emitted |-> <<>>]

\* an overlay whose preview_cleared is never sent
emit_but_cleared(self, sig) ==
  IF sig.sig = "preview_cleared" THEN self
  ELSE [self EXCEPT !.emitted = Append(@, sig)]

emit(self, sig) == [self EXCEPT !.emitted = Append(@, sig)]

\* LineAnnotation() / RectAnnotation() / PolygonAnnotation(): the new object is
\* the last of .objects and takes the next Annotation id
NewAnnotation(self, cls) ==
  [self EXCEPT !.annotation_id_counter = @ + 1,
               !.objects = Append(@, NewShape(cls, self.annotation_id_counter + 1))]

\* MEASURE_TOOLS[tool]() / AngleMeasure() / ...: takes the next Measure id
NewMeasure(self, cls) ==
  [self EXCEPT !.measure_id_counter = @ + 1,
               !.objects = Append(@, NewShape(cls, self.measure_id_counter + 1))]

\* set_tool that keeps the multi-click buffer
set_tool_keep_buffer(self, tool_type) ==
  emit([self EXCEPT !.current_tool = tool_type], preview_cleared)

\* AnnotationOverlay.set_tool
set_tool(self, tool_type) ==
  emit([self EXCEPT !.current_tool = tool_type, !.multi_points = <<>>],
       preview_cleared)

\* AnnotationOverlay._handle_measure_press
handle_measure_press(self, p) ==
  LET tool == self.current_tool IN
  IF tool \in {"distance", "ellipse"} THEN
    LET s1 == NewMeasure([self EXCEPT !.is_drawing = TRUE], MEASURE_TOOLS[tool])
        ref == Len(s1.objects)
        s2 == [s1 EXCEPT !.current_measure = ref,
                         !.objects[ref] = add_point(add_point(@, p), p)]
    IN emit(s2, preview_updated(tool))
  ELSE IF tool = "angle" THEN
    LET s1 == [self EXCEPT !.multi_points = Append(@, p)]
        s2 == emit(s1, preview_updated("angle"))
    IN IF Len(s2.multi_points) >= 3 THEN
         LET s3 == NewMeasure(s2, "Angle")
             ref == Len(s3.objects)
             s4 == [s3 EXCEPT !.objects[ref] = complete(AddPoints(@, s3.multi_points)),
                              !.measurements = Append(@, ref)]
             s5 == emit(s4, measure_added(ref))
         IN emit([s5 EXCEPT !.multi_points = <<>>], preview_cleared)
       ELSE s2
  ELSE IF tool \in {"area", "perimeter"} THEN
    LET s1 == [self EXCEPT !.multi_points = Append(@, p)]
    IN emit(s1, preview_updated(tool))
  ELSE self

\* AnnotationOverlay.mousePressEvent (left button)
mousePressEvent(self, p) ==
  IF self.current_tool = "wl" THEN [self EXCEPT !.wl_start_pos = p]
  ELSE IF self.current_tool = NoTool THEN self
  ELSE IF is_measure_tool(self.current_tool) THEN handle_measure_press(self, p)
  ELSE IF self.current_tool = "polygon" THEN
    LET s1 == [self EXCEPT !.multi_points = Append(@, p)]
    IN emit(s1, preview_updated("polygon"))
  ELSE
    LET s1 == [self EXCEPT !.is_drawing = TRUE]
        s2 == IF s1.current_tool = "line" THEN
                LET n == NewAnnotation(s1, "Line")
                IN [n EXCEPT !.current_annotation = Len(n.objects)]
              ELSE IF s1.current_tool = "rectangle" THEN
                LET n == NewAnnotation(s1, "Rectangle")
                IN [n EXCEPT !.current_annotation = Len(n.objects)]
              ELSE s1
        ref == s2.current_annotation
    IN IF ref # NoRef THEN
         LET s3 == [s2 EXCEPT !.objects[ref] = add_point(add_point(@, p), p)]
         IN emit(s3, preview_updated(s3.current_tool))
       ELSE s2

\* _handle_measure_double_click accepting an area of 2 points
handle_measure_double_click_two(self) ==
  LET tool == self.current_tool
      finish(cls) ==
        LET s1 == NewMeasure(self, cls)
            ref == Len(s1.objects)
            s2 == [s1 EXCEPT !.objects[ref] = complete(AddPoints(@, s1.multi_points)),
                             !.measurements = Append(@, ref)]
            s3 == emit(s2, measure_added(ref))
        IN emit([s3 EXCEPT !.multi_points = <<>>], preview_cleared)
  IN IF tool = "area" /\ Len(self.multi_points) >= 2 THEN finish("Area")
     ELSE IF tool = "perimeter" /\ Len(self.multi_points) >= 2 THEN finish("Perimeter")
     ELSE self

\* AnnotationOverlay._handle_measure_double_click: the shape is constructed,
\* filled from the buffer point by point, completed and appended
handle_measure_double_click(self) ==
  LET tool == self.current_tool
      finish(cls) ==
        LET s1 == NewMeasure(self, cls)
            ref == Len(s1.objects)
            s2 == [s1 EXCEPT !.objects[ref] = complete(AddPoints(@, s1.multi_points)),
                             !.measurements = Append(@, ref)]
            s3 == emit(s2, measure_added(ref))
        IN emit([s3 EXCEPT !.multi_points = <<>>],
                preview_cleared)
  IN IF tool = "area" /\ Len(self.multi_points) >= 3 THEN finish("Area")
     ELSE IF tool = "perimeter" /\ Len(self.multi_points) >= 2 THEN finish("Perimeter")
     ELSE self

\* mouseDoubleClickEvent clearing the preview also when it completes nothing
mouseDoubleClickEvent_clears(self) ==
  IF is_measure_tool(self.current_tool) THEN handle_measure_double_click(self)
  ELSE IF self.current_tool = "polygon" /\ Len(self.multi_points) >= 3 THEN
    LET s1 == NewAnnotation(self, "Polygon")
        ref == Len(s1.objects)
        s2 == [s1 EXCEPT !.objects[ref] = complete(AddPoints(@, s1.multi_points)),
                         !.annotations = Append(@, ref)]
        s3 == emit(s2, annotation_added(ref))
    IN emit([s3 EXCEPT !.multi_points = <<>>], preview_cleared)
  ELSE emit(self, preview_cleared)

\* AnnotationOverlay.mouseDoubleClickEvent
mouseDoubleClickEvent(self) ==
  IF is_measure_tool(self.current_tool) THEN handle_measure_double_click(self)
  ELSE IF self.current_tool = "polygon" /\ Len(self.multi_points) >= 3 THEN
    LET s1 == NewAnnotation(self, "Polygon")
        ref == Len(s1.objects)
        s2 == [s1 EXCEPT !.objects[ref] = complete(AddPoints(@, s1.multi_points)),
                         !.annotations = Append(@, ref)]
        s3 == emit(s2, annotation_added(ref))
    IN emit([s3 EXCEPT !.multi_points = <<>>],
            preview_cleared)
  ELSE self

\* AnnotationOverlay.mouseMoveEvent
mouseMoveEvent(self, p) ==
  IF self.current_tool = "wl" /\ self.wl_start_pos # NoPos THEN
    LET delta_window == p[1] - self.wl_start_pos[1]
        delta_level == -(p[2] - self.wl_start_pos[2])
    IN emit([self EXCEPT !.wl_start_pos = p], wl_changed(delta_window, delta_level))
  ELSE
    LET s1 == self
        tool == s1.current_tool
    IN IF /\ is_measure_tool(tool)
          /\ tool \in {"angle", "area", "perimeter"}
          /\ Len(s1.multi_points) >= 1
       THEN emit(s1, preview_updated(tool))
       ELSE IF /\ is_measure_tool(tool)
               /\ tool \in {"distance", "ellipse"}
               /\ s1.is_drawing
               /\ s1.current_measure # NoRef
       THEN LET ref == s1.current_measure
                s2 == [s1 EXCEPT !.objects[ref] = update_last_point(@, p)]
            IN emit(s2, preview_updated(tool))
       ELSE IF tool = "polygon" /\ Len(s1.multi_points) >= 1
       THEN emit(s1, preview_updated("polygon"))
       ELSE IF ~s1.is_drawing \/ s1.current_annotation = NoRef
       THEN s1
       ELSE LET ref == s1.current_annotation
                s2 == [s1 EXCEPT !.objects[ref] = update_last_point(@, p)]
            IN emit(s2, preview_updated(tool))

\* AnnotationOverlay.mouseReleaseEvent (left button)
mouseReleaseEvent(self) ==
  LET tool == self.current_tool IN
  IF tool = "wl" THEN [self EXCEPT !.wl_start_pos = NoPos]
  ELSE IF is_measure_tool(tool) THEN
    IF tool \in {"angle", "area", "perimeter"} THEN self
    ELSE IF /\ tool \in {"distance", "ellipse"}
            /\ self.is_drawing
            /\ self.current_measure # NoRef
    THEN LET ref == self.current_measure
             s1 == [self EXCEPT !.is_drawing = FALSE,
                                !.objects[ref] = complete(@),
                                !.measurements = Append(@, ref)]
             s2 == emit(s1, measure_added(ref))
         IN emit([s2 EXCEPT !.current_measure = NoRef], preview_cleared)
    ELSE self
  ELSE IF tool = "polygon" THEN self
  ELSE IF ~self.is_drawing THEN self
  ELSE
    LET s1 == [self EXCEPT !.is_drawing = FALSE]
        ref == s1.current_annotation
    IN IF ref # NoRef THEN
         LET s2 == [s1 EXCEPT !.objects[ref] = complete(@),
                              !.annotations = Append(@, ref)]
             s3 == emit(s2, annotation_added(ref))
         IN emit([s3 EXCEPT !.current_annotation = NoRef], preview_cleared)
       ELSE s1

\* AnnotationOverlay.remove_annotation
remove_annotation(self, ref) ==
  [self EXCEPT !.annotations = RemoveFirst(@, ref)]

\* --------------------------------------------------- window and layer panel
\* delivery of annotation_added: LayerPanelWidget.add_annotation appends the
\* annotation once per connection; the window's own slots (on_annotation_added,
\* on_preview_updated, on_preview_cleared) change nothing.
RECURSIVE add_annotation(_, _, _)
add_annotation(panel, sigs, connections) ==
  IF sigs = <<>> THEN panel
  ELSE add_annotation(
         IF Head(sigs).sig = "annotation_added"
         THEN panel \o Repeat(Head(sigs).ref, connections)
         ELSE panel,
         Tail(sigs), connections)

RECURSIVE on_measure_added(_, _)
\* UltrasoundViewerWindow.on_measure_added: appends the measure to the
\* overlay's list when it is not there yet
on_measure_added(meas, sigs) ==
  IF sigs = <<>> THEN meas
  ELSE on_measure_added(
         IF Head(sigs).sig = "measure_added" /\ Head(sigs).ref \notin Range(meas)
         THEN Append(meas, Head(sigs).ref)
         ELSE meas,
         Tail(sigs))

\* the overlay a handler left behind becomes the state, and its signals are
\* delivered to the connected slots
Handled(s) ==
  /\ Len(s.objects) <= MaxShapes
  /\ Len(s.multi_points) <= MaxBuf
  /\ \A r \in DOMAIN s.objects : Len(s.objects[r].points) <= MaxBuf + 1
  /\ current_tool' = s.current_tool
  /\ objects' = s.objects
  /\ annotation_id_counter' = s.annotation_id_counter
  /\ measure_id_counter' = s.measure_id_counter
  /\ annotations' = s.annotations
  /\ measurements' = on_measure_added(s.measurements, s.emitted)
  /\ current_annotation' = s.current_annotation
  /\ current_measure' = s.current_measure
  /\ is_drawing' = s.is_drawing
  /\ wl_start_pos' = s.wl_start_pos
  /\ multi_points' = s.multi_points
  /\ emitted' = s.emitted
  /\ panel_annotations' = add_annotation(panel_annotations, s.emitted, add_connections)
  /\ UNCHANGED add_connections
  /\ UNCHANGED restVars

Committed(sigs) ==
  \E i \in DOMAIN sigs : sigs[i].sig \in {"annotation_added", "measure_added"}

\* ----------------------------------------------------------------- actions
\* the deltas of the wl_changed emissions among the signals, added to sum
RECURSIVE SumDeltas(_, _)
SumDeltas(sigs, sum) ==
  IF sigs = <<>> THEN sum
  ELSE SumDeltas(Tail(sigs),
                 IF Head(sigs).sig = "wl_changed"
                 THEN <<sum[1] + Head(sigs).dw, sum[2] + Head(sigs).dl>>
                 ELSE sum)

\* the window (set_tool, set_annotation_tool, set_measure_tool) or any other
\* caller selects a tool
SetTool(t) ==
  /\ t \in tools_used \/ Cardinality(tools_used) < MaxTools
  /\ tools_used' = tools_used \cup {t}
  /\ Handled(set_tool(Self, t))
  /\ last' = "set_tool"
  /\ clicks' = <<>>
  /\ pressed_since_change' = (t = current_tool /\ pressed_since_change)
  /\ drag' = NoDrag
  /\ wl_drag' = IF t = current_tool THEN wl_drag ELSE NoWlDrag

PointerDown(p) ==
  LET s == mousePressEvent(Self, p) IN
  /\ Handled(s)
  /\ last' = "press"
  /\ clicks' = IF current_tool \in MultiTools \cup {"angle"}
               THEN (IF Committed(s.emitted) THEN <<>> ELSE Append(clicks, p))
               ELSE clicks
  /\ pressed_since_change' = TRUE
  /\ UNCHANGED tools_used
  /\ drag' = IF current_tool \in DragTools
             THEN [active |-> TRUE, p |-> p, q |-> p]
             ELSE drag
  /\ wl_drag' = IF current_tool = "wl"
                THEN [active |-> TRUE, press |-> p, last |-> p, sum |-> <<0, 0>>]
                ELSE wl_drag

PointerMove(p) ==
  LET s == mouseMoveEvent(Self, p) IN
  /\ Handled(s)
  /\ last' = "move"
  /\ drag' = IF drag.active THEN [drag EXCEPT !.q = p] ELSE drag
  /\ wl_drag' = IF wl_drag.active
                THEN [wl_drag EXCEPT !.last = p, !.sum = SumDeltas(s.emitted, @)]
                ELSE wl_drag
  /\ UNCHANGED <<clicks, pressed_since_change, tools_used>>

PointerUp ==
  LET s == mouseReleaseEvent(Self) IN
  /\ Handled(s)
  /\ last' = "release"
  /\ drag' = NoDrag
  /\ wl_drag' = NoWlDrag
  /\ UNCHANGED <<clicks, pressed_since_change, tools_used>>

DoubleClick ==
  LET s == mouseDoubleClickEvent(Self) IN
  /\ Handled(s)
  /\ last' = "dblclick"
  /\ clicks' = IF Committed(s.emitted) THEN <<>> ELSE clicks
  /\ UNCHANGED <<pressed_since_change, tools_used, drag, wl_drag>>

\* LayerPanelWidget._on_delete_item: annotation_deleted reaches
\* UltrasoundViewerWindow.on_annotation_deleted, then the panel's own
\* remove_annotation
DeleteItem(ref) ==
  /\ ref \in Range(panel_annotations)
  /\ annotations' = remove_annotation(Self, ref).annotations
  /\ panel_annotations' = RemoveFirst(panel_annotations, ref)
  /\ UNCHANGED <<current_tool, objects, annotation_id_counter,
                 measure_id_counter, measurements, current_annotation,
                 current_measure, is_drawing, wl_start_pos, multi_points,
                 add_connections, emitted, last, clicks,
                 pressed_since_change, tools_used, drag, wl_drag, restVars>>

\* LayerPanelWidget.clear_all (the panel's clear button)
ClearAll ==
  /\ panel_annotations # <<>>
  /\ annotations' = RemoveAll(annotations, panel_annotations)
  /\ panel_annotations' = <<>>
  /\ UNCHANGED <<current_tool, objects, annotation_id_counter,
                 measure_id_counter, measurements, current_annotation,
                 current_measure, is_drawing, wl_start_pos, multi_points,
                 add_connections, emitted, last, clicks,
                 pressed_since_change, tools_used, drag, wl_drag, restVars>>

\* UltrasoundViewerWindow.clear_all_measures
ClearAllMeasures ==
  /\ measurements # <<>>
  /\ measurements' = <<>>
  /\ UNCHANGED <<current_tool, objects, annotation_id_counter,
                 measure_id_counter, annotations, current_annotation,
                 current_measure, is_drawing, wl_start_pos, multi_points,
                 panel_annotations, add_connections,
                 emitted, last, clicks, pressed_since_change, tools_used, drag, wl_drag,
                 restVars>>

\* UltrasoundViewerWindow._sync_viewport_references (after a load, a layout
\* or an active-viewport change): every slot of the overlay's signals is
\* disconnected and each is connected once
SyncViewportReferences ==
  /\ add_connections # 1
  /\ add_connections' = 1
  /\ UNCHANGED <<overlayVars, panel_annotations, emitted, last, clicks,
                 pressed_since_change, tools_used, drag, wl_drag, restVars>>

\* the overlay's events, for the tools in T
OverlayNext(T) ==
  \/ \E t \in T : SetTool(t)
  \/ \E p \in Pos : PointerDown(p)
  \/ \E p \in Pos : PointerMove(p)
  \/ PointerUp
  \/ DoubleClick

\* the overlay under every tool name, the unknown one included
Next == OverlayNext(AllTools)

Spec == Init /\ [][Next]_vars

\* the tools the window's events are explored under: a drag annotation, the
\* multi-click annotation and a drag measurement
WindowTools == {"rectangle", "polygon", "distance"}

\* the main window: the overlay under WindowTools, the layer panel's delete
\* and clear buttons, the toolbar's clear-measures action and the re-wiring
\* of the signals after a load
WindowNext ==
  \/ OverlayNext(WindowTools)
  \/ \E ref \in 1..MaxShapes : DeleteItem(ref)
  \/ ClearAll
  \/ ClearAllMeasures
  \/ SyncViewportReferences

SpecWindow == Init /\ [][WindowNext]_vars

\* ------------------------------------------------------- shared vocabulary
AnyPointerDown == \E p \in Pos : PointerDown(p)
AnyPointerMove == \E p \in Pos : PointerMove(p)

CommitSigs == {"annotation_added", "measure_added"}
PreviewSigs == {"preview_updated", "preview_cleared"}

\* the commit events among the signals, in order
Commits(sigs) == SelectSeq(sigs, LAMBDA e : e.sig \in CommitSigs)

Emits(sigs, names) == \E i \in DOMAIN sigs : sigs[i].sig \in names

\* the overlay's two collections and the layer panel's list
Collections == <<annotations, measurements, panel_annotations>>
Listed == Range(annotations) \cup Range(measurements) \cup Range(panel_annotations)

\* one new object was constructed in the step and is the only addition to the
\* overlay's collections
AddsOnly(ref) ==
  /\ Len(objects') = Len(objects) + 1
  /\ ref = Len(objects')
  /\ \/ annotations' = Append(annotations, ref) /\ measurements' = measurements
     \/ measurements' = Append(measurements, ref) /\ annotations' = annotations

MinPoints == [polygon |-> 3, area |-> 3, perimeter |-> 2]
ClassOf ==
  [line |-> "Line", rectangle |-> "Rectangle", polygon |-> "Polygon",
   distance |-> "Distance", angle |-> "Angle", area |-> "Area",
   perimeter |-> "Perimeter", ellipse |-> "Ellipse"]

C2_DragCommit ==
  [][/\ (drag.active /\ PointerUp) =>
          LET ref == IF is_measure_tool(current_tool)
                     THEN current_measure ELSE current_annotation
          IN /\ ref # NoRef
             /\ ref \notin Range(annotations) \cup Range(measurements)
             /\ IF is_measure_tool(current_tool)
                THEN /\ measurements' = Append(measurements, ref)
                     /\ annotations' = annotations
                     /\ Commits(emitted') = <<measure_added(ref)>>
                ELSE /\ annotations' = Append(annotations, ref)
                     /\ measurements' = measurements
                     /\ Commits(emitted') = <<annotation_added(ref)>>
             /\ objects'[ref].cls = ClassOf[current_tool]
             /\ objects'[ref].completed
             /\ objects'[ref].points = <<drag.p, drag.q>>
     /\ (drag.active' /\ (AnyPointerDown \/ AnyPointerMove)) =>
          /\ annotations' = annotations
          /\ measurements' = measurements
          /\ Commits(emitted') = <<>>]_vars

C2_Witness ==
  /\ last = "release"
  /\ current_tool \in DragTools
  /\ Len(Commits(emitted)) = 1
  /\ objects[Commits(emitted)[1].ref].completed
  /\ Len(objects[Commits(emitted)[1].ref].points) = 2
  /\ objects[Commits(emitted)[1].ref].points[1] # objects[Commits(emitted)[1].ref].points[2]

\* C3: set_tool empties the buffer and emits preview_cleared, and once it has
\* changed the tool no handler emits preview_updated until a pointer-down is
\* handled under the new tool.
C3_NoStalePreview ==
  /\ last = "set_tool" => (multi_points = <<>> /\ emitted = <<preview_cleared>>)
  /\ ~pressed_since_change => ~Emits(emitted, {"preview_updated"})

\* C4: while the tool is 'wl', a pointer-down, pointer-move or pointer-up
\* creates no shape, changes no shape's points, commits nothing and emits
\* nothing but wl_changed.
C4_WlExclusive ==
  [][(current_tool = "wl" /\ (AnyPointerDown \/ AnyPointerMove \/ PointerUp)) =>
       /\ objects' = objects
       /\ Collections' = Collections
       /\ \A i \in DOMAIN emitted' : emitted'[i].sig = "wl_changed"]_vars

\* C5: under the angle tool a pointer-down at p appends p to the buffer; on the
\* third pointer-down since the buffer was empty an Angle with the three
\* clicked points, in click order, is committed completed and the buffer is
\* reset; so the buffer never holds more than 2 points under the angle tool,
\* and every Angle has exactly 3 points, which no later event changes.
C5_Angle ==
  /\ [](current_tool = "angle" => Len(multi_points) <= 2)
  /\ [](\A r \in DOMAIN objects :
          objects[r].cls = "Angle" =>
            Len(objects[r].points) = 3 /\ objects[r].completed)
  /\ [][/\ \A r \in DOMAIN objects :
             objects[r].cls = "Angle" => objects'[r] = objects[r]
        /\ \A p \in Pos :
             (current_tool = "angle" /\ PointerDown(p)) =>
               IF Len(clicks) = 2
               THEN /\ AddsOnly(Len(objects'))
                    /\ objects'[Len(objects')] =
                         [cls |-> "Angle", id |-> measure_id_counter + 1,
                          points |-> Append(clicks, p), completed |-> TRUE]
                    /\ Commits(emitted') = <<measure_added(Len(objects'))>>
                    /\ multi_points' = <<>>
               ELSE /\ multi_points' = Append(multi_points, p)
                    /\ multi_points' = Append(clicks, p)
                    /\ objects' = objects
                    /\ Collections' = Collections
                    /\ Commits(emitted') = <<>>]_vars

C5_Witness ==
  /\ last = "press"
  /\ current_tool = "angle"
  /\ multi_points = <<>>
  /\ Len(Commits(emitted)) = 1
  /\ objects[Commits(emitted)[1].ref].cls = "Angle"
  /\ objects[Commits(emitted)[1].ref].points[1] # objects[Commits(emitted)[1].ref].points[2]

\* C6: a shape committed by the polygon, area, perimeter or angle tool holds
\* exactly the points clicked under that tool since the most recent set_tool
\* (or, after an earlier commit under it, since that commit): a point buffered
\* before a tool change is in no shape committed after it.
C6_NoLeakAcrossTools ==
  [][\A ref \in DOMAIN objects' :
       (/\ ref \notin DOMAIN objects
        /\ objects'[ref].cls \in {"Polygon", "Area", "Perimeter", "Angle"}
        /\ ref \in Range(annotations') \cup Range(measurements')) =>
         /\ objects'[ref].cls = ClassOf[current_tool]
         /\ \/ DoubleClick /\ objects'[ref].points = clicks
            \/ \E p \in Pos :
                 PointerDown(p) /\ objects'[ref].points = Append(clicks, p)]_vars

C6_Witness ==
  /\ Cardinality(tools_used \cap (MultiTools \cup {"angle"})) = 2
  /\ Len(Commits(emitted)) = 1
  /\ objects[Commits(emitted)[1].ref].cls \in {"Polygon", "Area", "Perimeter", "Angle"}
  /\ Len(objects) = 1

\* C7: a double-click under polygon or area with fewer than 3 buffered points
\* or under perimeter with fewer than 2, a pointer-move under a drag tool with
\* no shape in progress, and a pointer-up with no shape in progress leave the
\* shape objects, the collections and the buffer as they were and emit no
\* preview, preview-cleared or commit signal.
NoShapeInProgress ==
  ~is_drawing \/ (current_annotation = NoRef /\ current_measure = NoRef)

C7_NoOps ==
  [][(\/ /\ DoubleClick
         /\ current_tool \in MultiTools
         /\ Len(multi_points) < MinPoints[current_tool]
      \/ AnyPointerMove /\ current_tool \in DragTools /\ NoShapeInProgress
      \/ PointerUp /\ NoShapeInProgress) =>
       /\ objects' = objects
       /\ Collections' = Collections
       /\ multi_points' = multi_points
       /\ ~Emits(emitted', CommitSigs \cup PreviewSigs)]_vars

C7_Witness ==
  /\ last = "dblclick"
  /\ current_tool = "polygon"
  /\ Len(multi_points) = 2
  /\ emitted = <<>>
  /\ is_drawing

\* C8: set_tool with a tool name the overlay does not know is rejected and
\* leaves current_tool as it was.
C8_UnknownToolRejected ==
  [][(\E t \in AllTools \ GuiTools : SetTool(t)) => current_tool' = current_tool]_vars

\* C9: every shape in the overlay's annotations, in its measurements or in the
\* layer panel's list is completed; the shape being drawn (current_annotation,
\* current_measure) is in none of them; and every commit signal carries a
\* completed shape that is no longer the one being drawn.
C9_OnlyCompletedListed ==
  /\ \A r \in Listed : objects[r].completed
  /\ current_annotation # NoRef => current_annotation \notin Listed
  /\ current_measure # NoRef => current_measure \notin Listed
  /\ \A i \in DOMAIN emitted :
       emitted[i].sig \in CommitSigs =>
         /\ objects[emitted[i].ref].completed
         /\ emitted[i].ref \notin {current_annotation, current_measure}

C9_Witness ==
  /\ last = "release"
  /\ Len(Commits(emitted)) = 1
  /\ measurements # <<>>
  /\ current_annotation # NoRef
  /\ ~objects[current_annotation].completed

\* C10: as long as only the tools the window offers have been selected, every
\* Line, Rectangle, Distance and Ellipse has exactly 2 points, in progress or
\* committed.
C10_TwoPoints ==
  OtherTool \notin tools_used =>
    \A r \in DOMAIN objects :
      objects[r].cls \in {"Line", "Rectangle", "Distance", "Ellipse"} =>
        Len(objects[r].points) = 2

C10_Witness ==
  /\ OtherTool \notin tools_used
  /\ Len(objects) = 2
  /\ objects[1].cls \in {"Line", "Rectangle"}
  /\ ~objects[1].completed
  /\ objects[1].points[1] # objects[1].points[2]
  /\ objects[2].cls \in {"Distance", "Ellipse"}
  /\ objects[2].completed

\* C11: any two distinct shapes have different ids, and a shape constructed
\* later has a strictly greater id than every shape constructed before it,
\* annotations and measurements alike (objects is in construction order).
C11_IncreasingIds ==
  \A r1, r2 \in DOMAIN objects : r1 < r2 => objects[r1].id < objects[r2].id

\* C12: once the layer panel's delete of a shape has been handled, the shape
\* is neither in the overlay's annotations nor in the layer panel's list; and
\* after clear_all the layer panel's list and the overlay's annotations are
\* both empty.
C12_DeleteDestroys ==
  [][/\ \A ref \in 1..MaxShapes :
          DeleteItem(ref) =>
            ref \notin Range(annotations') \cup Range(panel_annotations')
     /\ ClearAll => (annotations' = <<>> /\ panel_annotations' = <<>>)]_vars

\* ------------------------------------------- the converter on its own
\* a converter constructed with any sizes and spacing
InitConverter ==
  /\ InitUi
  /\ \E iw, ih \in Dims \cup {DefaultSize}, ps \in Spacings :
       coord_converter = CoordinateConverter(iw, ih, ps)
  /\ InitRest

SetImageSize(w, h) ==
  /\ coord_converter' = set_image_size(coord_converter, w, h)
  /\ UNCHANGED <<uiVars, spacingVars, lutVars, fast_view, overlay_poll, measured, loading, frame_cache>>

\* Viewport._on_resize and load_streamer hand the widget's size over
SetWidgetSize(w, h) ==
  /\ coord_converter' = set_widget_size(coord_converter, w, h)
  /\ UNCHANGED <<uiVars, spacingVars, lutVars, fast_view, overlay_poll, measured, loading, frame_cache>>

SetPixelSpacing(ps) ==
  /\ coord_converter' = set_pixel_spacing(coord_converter, ps)
  /\ UNCHANGED <<uiVars, spacingVars, lutVars, fast_view, overlay_poll, measured, loading, frame_cache>>

SetImageInfo(w, h, ps) ==
  /\ coord_converter' = set_image_info(coord_converter, w, h, ps)
  /\ UNCHANGED <<uiVars, spacingVars, lutVars, fast_view, overlay_poll, measured, loading, frame_cache>>

ConverterNext ==
  \/ \E w, h \in Dims : SetImageSize(w, h)
  \/ \E w, h \in Dims : SetWidgetSize(w, h)
  \/ \E ps \in Spacings : SetPixelSpacing(ps)
  \/ \E w, h \in Dims, ps \in Spacings : SetImageInfo(w, h, ps)

SpecConverter == InitConverter /\ [][ConverterNext]_vars

\* all four stored sizes are positive
PositiveSizes(c) ==
  /\ c.image_width > 0
  /\ c.image_height > 0
  /\ c.widget_width > 0
  /\ c.widget_height > 0

C15_DegenerateIdentity ==
  (\/ ~PositiveSizes(coord_converter)
   \/ ~RatLess(RatInt(0), coord_converter.scale)) =>
    \A p \in ConvPoints : widget_to_image(coord_converter, p) = p

\* C16: in every state between calls of the constructor, set_image_size,
\* set_widget_size and set_pixel_spacing in which all four stored sizes are
\* positive, _scale = min(widget_width / image_width, widget_height /
\* image_height), _offset_x = (widget_width - image_width * _scale) / 2 and
\* _offset_y = (widget_height - image_height * _scale) / 2 for the stored sizes.
C16_DerivedStateCurrent ==
  LET c == coord_converter IN
  PositiveSizes(c) =>
    /\ \/ c.scale = Rat(c.widget_width, c.image_width)
       \/ c.scale = Rat(c.widget_height, c.image_height)
    /\ ~RatLess(Rat(c.widget_width, c.image_width), c.scale)
    /\ ~RatLess(Rat(c.widget_height, c.image_height), c.scale)
    /\ RatAdd(RatMul(RatInt(2), c.offset_x), RatMul(RatInt(c.image_width), c.scale))
         = RatInt(c.widget_width)
    /\ RatAdd(RatMul(RatInt(2), c.offset_y), RatMul(RatInt(c.image_height), c.scale))
         = RatInt(c.widget_height)

C16_Witness ==
  /\ PositiveSizes(coord_converter)
  /\ coord_converter.image_width # DefaultSize
  /\ coord_converter.image_width # coord_converter.widget_width
  /\ coord_converter.offset_x # coord_converter.offset_y
  /\ coord_converter.pixel_spacing # RatInt(1)

\* ------------------------------------- the overlay over a resized viewport
\* the tools the anchoring of points is explored under: a multi-click tool
\* and a drag tool
AnchorTools == {"polygon", "distance"}

\* Viewport._on_resize hands the visible FAST widget's size to the converter
AnchorNext ==
  \/ OverlayNext(AnchorTools)
  \/ \E w, h \in 1..MaxDim : SetWidgetSize(w, h)

SpecAnchor == Init /\ [][AnchorNext]_vars

\* C13: every point a pointer-down or pointer-move at widget position p
\* records in the multi-click buffer or in a shape equals
\* widget_to_image(p) for the converter as it is at the event.
C13_ImageSpacePoints ==
  [][\A p \in Pos :
       LET image_point == widget_to_image(coord_converter, RatPoint(p)) IN
       /\ (PointerDown(p) /\ current_tool \in MultiTools /\ multi_points' # multi_points) =>
            RatPoint(multi_points'[Len(multi_points')]) = image_point
       /\ (PointerDown(p) /\ current_tool \in DragTools /\ objects' # objects) =>
            \A i \in DOMAIN objects'[Len(objects')].points :
              RatPoint(objects'[Len(objects')].points[i]) = image_point
       /\ (PointerMove(p) /\ current_tool \in DragTools /\ objects' # objects) =>
            \E r \in DOMAIN objects :
              /\ objects'[r] # objects[r]
              /\ RatPoint(objects'[r].points[Len(objects'[r].points)]) = image_point]_vars

\* ------------------------------------------------ loads, colormap and polls
\* frames a FrameTapProcessor captures in one run
MaxFrame == 2

\* truth value of an optional or a tuple: None and the empty tuple are false
Truthy(x) == x # <<>>

\* truth value of an optional number: None and 0 are false
TruthyNumber(x) == x # None /\ x[1] # RatInt(0)

Colormaps == {"GRAYSCALE", "HOT", "COOL"}

\* entries of the view matrices, in units of 10^-7
ViewEntries == {0, 4, 10}
\* what fast_view.getViewMatrix(), getOrthoProjectionParameters() and
\* getPerspectiveMatrix() return (None when the call raises)
ViewMatrices == {None} \cup {<<<<v>>>> : v \in ViewEntries}
OrthoParams == {None, <<0>>, <<10>>}
PerspectiveMatrices == {None, <<<<0, 0>>>>}
Views ==
  [matrix : ViewMatrices, ortho : OrthoParams, perspective : PerspectiveMatrices]

\* round(v, 6), for v in units of 10^-7; the result is in units of 10^-6
Round6(v) == (v + 5) \div 10

RECURSIVE RoundAll(_)
\* tuple(round(v, 6) for v in values)
RoundAll(values) ==
  IF values = <<>> THEN <<>>
  ELSE <<Round6(Head(values))>> \o RoundAll(Tail(values))

RECURSIVE Flatten(_)
\* for row in matrix for v in row
Flatten(matrix) ==
  IF matrix = <<>> THEN <<>> ELSE Head(matrix) \o Flatten(Tail(matrix))

\* _update_lut_overlay's view_key
view_key(view) ==
  IF Truthy(view.matrix) /\ (Truthy(view.ortho) \/ Truthy(view.perspective))
  THEN RoundAll(Flatten(view.matrix))
         \o (IF Truthy(view.ortho) THEN RoundAll(view.ortho) ELSE <<>>)
         \o (IF Truthy(view.perspective)
             THEN RoundAll(Flatten(view.perspective)) ELSE <<>>)
  ELSE None

\* a FrameTapProcessor right after create()
NewFrameTap == [has_frame |-> FALSE, frame_id |-> 0]

\* the methods class CoordinateConverter defines
ConverterMethods ==
  {"__init__", "set_image_size", "set_widget_size", "set_pixel_spacing",
   "_update_transform", "widget_to_image", "pixel_to_world", "world_to_pixel",
   "format_length", "format_area"}

\* UltrasoundViewerWindow._set_lut_overlay_enabled, on the window's fields
SetLutOverlayEnabled(enabled) ==
  /\ lut_overlay_enabled' = enabled
  /\ lut_last_frame_id' = NoFrameId
  /\ lut_last_view_matrix' = None
  /\ lut_reset' = TRUE

\* UltrasoundViewerWindow.on_colormap_changed: _set_lut_overlay_enabled, then
\* apply_image_processing, which resets the remembered frame id once more
OnColormapChanged(colormap_type) ==
  /\ current_colormap' = colormap_type
  /\ SetLutOverlayEnabled(colormap_type # "GRAYSCALE")
  /\ UNCHANGED <<uiVars, coord_converter, spacingVars, lut_overlay_processor,
                 fast_view, lut_poll, overlay_poll, measured, loading, frame_cache>>

\* UltrasoundViewerWindow.on_filter_changed: apply_image_processing resets the
\* remembered frame id when a renderer exists (after a load)
OnFilterChanged ==
  /\ lut_overlay_processor # None
  /\ lut_last_frame_id' = NoFrameId
  /\ lut_reset' = TRUE
  /\ UNCHANGED <<uiVars, coord_converter, spacingVars, current_colormap,
                 lut_overlay_enabled, lut_overlay_processor,
                 lut_last_view_matrix, fast_view, lut_poll, overlay_poll, measured, loading, frame_cache>>

\* the user zooms or pans the FAST view
ViewChange(view) ==
  /\ view # fast_view
  /\ fast_view' = view
  /\ UNCHANGED <<uiVars, coord_converter, spacingVars, lutVars, overlay_poll, measured, loading, frame_cache>>

\* FrameTapProcessor.execute: the pipeline delivers a frame
NewFrame ==
  /\ lut_overlay_processor # None
  /\ lut_overlay_processor[1].frame_id < MaxFrame
  /\ lut_overlay_processor' =
       Some([has_frame |-> TRUE,
             frame_id |-> lut_overlay_processor[1].frame_id + 1])
  /\ UNCHANGED <<uiVars, coord_converter, spacingVars, current_colormap,
                 lut_overlay_enabled, lut_last_frame_id, lut_last_view_matrix,
                 fast_view, lut_poll, lut_reset, overlay_poll, measured, loading, frame_cache>>

\* a gate that compares the frame id only
lut_gate_frame_only(frame_id, key, last_frame_id, last_key) ==
  frame_id = last_frame_id

\* the change-detection test of _update_lut_overlay
lut_gate(frame_id, key, last_frame_id, last_key) ==
  frame_id = last_frame_id /\ key = last_key

\* UltrasoundViewerWindow._update_lut_overlay (lut_overlay_timer, 33 ms)
UpdateLutOverlay ==
  /\ lut_reset' = FALSE
  /\ IF \/ ~lut_overlay_enabled
        \/ lut_overlay_processor = None
        \/ ~lut_overlay_processor[1].has_frame
     THEN /\ lut_poll' = [seen |-> None, recomputed |-> FALSE]
          /\ UNCHANGED <<lut_last_frame_id, lut_last_view_matrix>>
     ELSE LET frame_id == lut_overlay_processor[1].frame_id
              key == view_key(fast_view)
          IN IF lut_gate(frame_id, key, lut_last_frame_id, lut_last_view_matrix)
             THEN /\ lut_poll' = [seen |-> Some([frame_id |-> frame_id, view_key |-> key]),
                                  recomputed |-> FALSE]
                  /\ UNCHANGED <<lut_last_frame_id, lut_last_view_matrix>>
             ELSE /\ lut_last_frame_id' = frame_id
                  /\ lut_last_view_matrix' = key
                  /\ lut_poll' = [seen |-> Some([frame_id |-> frame_id, view_key |-> key]),
                                  recomputed |-> TRUE]
  /\ UNCHANGED <<uiVars, coord_converter, spacingVars, current_colormap,
                 lut_overlay_enabled, lut_overlay_processor, fast_view,
                 overlay_poll, measured, loading, frame_cache>>

\* UltrasoundViewerWindow._update_annotation_overlay (annotation_update_timer,
\* 50 ms): coord_converter.set_view_matrix is no method of CoordinateConverter,
\* the AttributeError is swallowed by the handler's except clause
UpdateAnnotationOverlay ==
  /\ overlay_poll' =
       [view |-> Some(fast_view),
        repainted |-> /\ "set_view_matrix" \in ConverterMethods
                      /\ overlay_poll.view # Some(fast_view)]
  /\ UNCHANGED <<uiVars, coord_converter, spacingVars, lutVars, fast_view, measured, loading, frame_cache>>

\* Viewport.load_streamer, setup_pipeline and the window's
\* _sync_viewport_references: a new frame tap, one connection per signal
LoadStreamer(converter) ==
  /\ coord_converter' = converter
  /\ lut_overlay_processor' = Some(NewFrameTap)
  /\ add_connections' = 1
  /\ UNCHANGED <<overlayVars, panel_annotations, emitted, last, clicks,
                 pressed_since_change, tools_used, drag, wl_drag>>

\* UltrasoundViewerWindow._apply_dicom_result
ApplyDicomResult(pixel_spacing, image_width, image_height, ww, wh) ==
  /\ annotation_pixel_spacing' = pixel_spacing
  /\ measure_pixel_spacing' = pixel_spacing
  /\ loaded_spacing' = pixel_spacing
  /\ LoadStreamer(
       IF image_width > 0 /\ image_height > 0
       THEN set_widget_size(
              set_image_info(coord_converter, image_width, image_height,
                             IF TruthyNumber(pixel_spacing)
                             THEN pixel_spacing[1] ELSE RatInt(1)),
              ww, wh)
       ELSE coord_converter)
  /\ SetLutOverlayEnabled(current_colormap # "GRAYSCALE")
  /\ UNCHANGED <<current_colormap, fast_view, lut_poll, overlay_poll, measured, frame_cache>>

\* UltrasoundViewerWindow._on_video_load_complete
OnVideoLoadComplete ==
  /\ loaded_spacing' = None
  /\ LoadStreamer(coord_converter)
  /\ UNCHANGED <<annotation_pixel_spacing, measure_pixel_spacing,
                 current_colormap, lut_overlay_enabled, lut_last_frame_id,
                 lut_last_view_matrix, fast_view, lut_poll, lut_reset,
                 overlay_poll, measured, loading, frame_cache>>

\* UltrasoundViewerWindow._load_file_sync (neither DICOM nor video)
LoadFileSync ==
  /\ loaded_spacing' = None
  /\ LoadStreamer(coord_converter)
  /\ UNCHANGED <<annotation_pixel_spacing, measure_pixel_spacing,
                 current_colormap, lut_overlay_enabled, lut_last_frame_id,
                 lut_last_view_matrix, fast_view, lut_poll, lut_reset,
                 overlay_poll, measured, loading, frame_cache>>

\* ---------------------------------------------------------------------
\* the annotation poll over a zoomed, panned and resized view

OverlayPollNext ==
  \/ \E view \in Views : ViewChange(view)
  \/ UpdateAnnotationOverlay
  \/ \E w, h \in 1..MaxDim : SetWidgetSize(w, h)

SpecOverlayPoll == Init /\ [][OverlayPollNext]_vars

\* C17: a poll of _update_annotation_overlay that sees a view transform
\* different from the one seen at the previous poll triggers a repaint of the
\* annotation overlay
C17_PollRepaintsOnViewChange ==
  [][(/\ UpdateAnnotationOverlay
      /\ overlay_poll.view # None
      /\ overlay_poll.view # Some(fast_view))
     => overlay_poll'.repainted]_vars

\* ---------------------------------------------------------------------
\* the LUT overlay poll over loads, frames, view and colormap changes

PollNext ==
  \/ OnVideoLoadComplete
  \/ NewFrame
  \/ \E view \in Views : ViewChange(view)
  \/ \E colormap_type \in Colormaps : OnColormapChanged(colormap_type)
  \/ OnFilterChanged
  \/ UpdateLutOverlay

SpecPoll == Init /\ [][PollNext]_vars

\* the poll about to run reaches the gate
PollSees ==
  /\ lut_overlay_enabled
  /\ lut_overlay_processor # None
  /\ lut_overlay_processor[1].has_frame

\* what the poll about to run reads: frame id and rounded view key
PollReads ==
  [frame_id |-> lut_overlay_processor[1].frame_id,
   view_key |-> view_key(fast_view)]

\* the poll did not recompute and left the remembered values alone
PollSkipped ==
  /\ ~lut_poll'.recomputed
  /\ UNCHANGED <<lut_last_frame_id, lut_last_view_matrix>>

\* the poll replaced the remembered values by what it read, then recomputed
PollRecomputed ==
  /\ lut_poll'.recomputed
  /\ lut_last_frame_id' = PollReads.frame_id
  /\ lut_last_view_matrix' = PollReads.view_key

\* C18 as stated: of two consecutive polls that reach the gate, the second
\* skips when it reads the same frame id and rounded view key as the first,
\* and replaces the remembered values and recomputes when either differs
C18_Gate ==
  [][(UpdateLutOverlay /\ PollSees /\ lut_poll.seen # None)
     => IF lut_poll.seen = Some(PollReads) THEN PollSkipped
        ELSE PollRecomputed]_vars

\* C18 amended: the second poll skips when it reads the same frame id and
\* rounded view key as the first and the remembered values were not reset
\* between the two polls; it replaces the remembered values and recomputes
\* when either differs or a reset happened in between
C18_GateUnlessReset ==
  [][(UpdateLutOverlay /\ PollSees /\ lut_poll.seen # None)
     => IF lut_poll.seen = Some(PollReads) /\ ~lut_reset THEN PollSkipped
        ELSE PollRecomputed]_vars

\* a poll has skipped on an unchanged frame and view whose raw matrix entry
\* differs from its rounded one, and a poll has recomputed
C18_Witness ==
  /\ lut_poll.seen # None
  /\ ~lut_poll.recomputed
  /\ ~lut_reset
  /\ fast_view.matrix = <<<<4>>>>
  /\ lut_last_view_matrix = <<0, 1>>
  /\ lut_last_frame_id = MaxFrame

\* ---------------------------------------------------------------------
\* file loads and the units of the shapes

\* the unit of Annotation._format_length / Measure._format_length
format_length_unit(pixel_spacing) ==
  IF TruthyNumber(pixel_spacing) THEN "mm" ELSE "px"

\* the unit of Annotation._format_area / Measure._format_area
format_area_unit(pixel_spacing) ==
  IF TruthyNumber(pixel_spacing) THEN "cm2" ELSE "px2"

\* DicomLoadResult.pixel_spacing
ResultSpacings == {None} \cup {Some(ps) : ps \in Spacings}

LoadNext ==
  \/ \E pixel_spacing \in ResultSpacings, image_width, image_height \in 0..MaxDim,
        ww, wh \in 1..MaxDim :
       /\ ApplyDicomResult(pixel_spacing, image_width, image_height, ww, wh)
       /\ UNCHANGED loading
  \/ OnVideoLoadComplete
  \/ LoadFileSync
  \/ \E colormap_type \in Colormaps : OnColormapChanged(colormap_type)

SpecLoad == Init /\ [][LoadNext]_vars

\* C19: when the most recently loaded image supplied no pixel spacing, the
\* lengths and areas of Annotation and Measure shapes are in px and px2
C19_AbsentSpacingMeansPixels ==
  loaded_spacing = None =>
    /\ format_length_unit(annotation_pixel_spacing) = "px"
    /\ format_area_unit(annotation_pixel_spacing) = "px2"
    /\ format_length_unit(measure_pixel_spacing) = "px"
    /\ format_area_unit(measure_pixel_spacing) = "px2"

\* ---------------------------------------------------------------------
\* get_measurements of the shape classes, in pixel units
\* coordinates of the points of a shape on its own
MaxCoord == 1
\* points of a shape on its own
MaxPoints == 4

ShapePoints == {<<x, y>> : x, y \in 0..MaxCoord}

\* the shape classes and the least number of points each is drawn with
ClassMinPoints ==
  [Line |-> 2, Rectangle |-> 2, Polygon |-> 3, Distance |-> 2, Angle |-> 3,
   Area |-> 3, Perimeter |-> 2, Ellipse |-> 2]

ShapeClasses == DOMAIN ClassMinPoints

RECURSIVE ISqrt(_)
\* the integer part of the square root of n
ISqrt(n) ==
  IF n < 2 THEN n
  ELSE LET s == 2 * ISqrt(n \div 4)
       IN IF (s + 1) * (s + 1) > n THEN s ELSE s + 1

\* math.sqrt, to 3 decimals
math_sqrt(r) == Rat(ISqrt((r[1] * 1000000) \div r[2]), 1000)

\* math.pi
math_pi == Rat(355, 113)

\* 1000 * cos(k degrees) for k = 0..180, at index k + 1
CosMilli ==
  <<
   1000, 1000, 999, 999, 998, 996, 995, 993, 990, 988, 985, 982,
   978, 974, 970, 966, 961, 956, 951, 946, 940, 934, 927, 921,
   914, 906, 899, 891, 883, 875, 866, 857, 848, 839, 829, 819,
   809, 799, 788, 777, 766, 755, 743, 731, 719, 707, 695, 682,
   669, 656, 643, 629, 616, 602, 588, 574, 559, 545, 530, 515,
   500, 485, 469, 454, 438, 423, 407, 391, 375, 358, 342, 326,
   309, 292, 276, 259, 242, 225, 208, 191, 174, 156, 139, 122,
   105, 87, 70, 52, 35, 17, 0, -17, -35, -52, -70, -87,
   -105, -122, -139, -156, -174, -191, -208, -225, -242, -259, -276, -292,
   -309, -326, -342, -358, -375, -391, -407, -423, -438, -454, -469, -485,
   -500, -515, -530, -545, -559, -574, -588, -602, -616, -629, -643, -656,
   -669, -682, -695, -707, -719, -731, -743, -755, -766, -777, -788, -799,
   -809, -819, -829, -839, -848, -857, -866, -875, -883, -891, -899, -906,
   -914, -921, -927, -934, -940, -946, -951, -956, -961, -966, -970, -974,
   -978, -982, -985, -988, -990, -993, -995, -996, -998, -999, -999, -1000,
   -1000>>

\* the arc cosine of |c|
acos_degrees_unsigned(c) ==
  LET milli == (Abs(c[1]) * 1000) \div c[2]
      dist(k) == Abs(CosMilli[k + 1] - milli)
  IN IF Abs(c[1]) = c[2] THEN 0
     ELSE CHOOSE k \in 0..90 :
            \A j \in 0..90 : dist(k) < dist(j) \/ (dist(k) = dist(j) /\ k <= j)

\* math.degrees(math.acos(c)), to the nearest degree
acos_degrees(c) ==
  LET milli == (c[1] * 1000) \div c[2]
      dist(k) == Abs(CosMilli[k + 1] - milli)
  IN IF c = RatInt(1) THEN 0
     ELSE IF c = RatInt(-1) THEN 180
     ELSE CHOOSE k \in 0..180 :
            \A j \in 0..180 : dist(k) < dist(j) \/ (dist(k) = dist(j) /\ k <= j)

\* sqrt(dx * dx + dy * dy) between two points
segment_length(p, q) ==
  math_sqrt(RatInt((q[1] - p[1]) * (q[1] - p[1]) + (q[2] - p[2]) * (q[2] - p[2])))

RECURSIVE polyline_length(_)
\* the sum of the lengths of the segments points[i] -> points[i + 1]
polyline_length(points) ==
  IF Len(points) < 2 THEN RatInt(0)
  ELSE RatAdd(segment_length(points[1], points[2]), polyline_length(Tail(points)))

\* LineAnnotation._calculate_length, DistanceMeasure._calculate_length
line_length(points) ==
  IF Len(points) < 2 THEN RatInt(0) ELSE segment_length(points[1], points[2])

\* RectAnnotation._get_dimensions
get_dimensions(points) ==
  IF Len(points) < 2 THEN <<RatInt(0), RatInt(0)>>
  ELSE <<RatInt(Abs(points[2][1] - points[1][1])),
         RatInt(Abs(points[2][2] - points[1][2]))>>

\* PolygonAnnotation._calculate_perimeter
polygon_perimeter(points, closed) ==
  IF Len(points) < 2 THEN RatInt(0)
  ELSE LET open == polyline_length(points)
       IN IF closed /\ Len(points) >= 3
          THEN RatAdd(open, segment_length(points[Len(points)], points[1]))
          ELSE open

RECURSIVE shoelace_open(_, _)
\* the shoelace sum without the closing term (i = n, j = 0)
shoelace_open(points, k) ==
  IF k >= Len(points) THEN 0
  ELSE points[k][1] * points[k + 1][2] - points[k + 1][1] * points[k][2]
         + shoelace_open(points, k + 1)

RECURSIVE shoelace(_, _)
\* the shoelace sum over i = k..n, with j = (i + 1) % n
shoelace(points, k) ==
  IF k > Len(points) THEN 0
  ELSE LET j == (k % Len(points)) + 1
       IN points[k][1] * points[j][2] - points[j][1] * points[k][2]
            + shoelace(points, k + 1)

\* PolygonAnnotation._calculate_area, AreaMeasure._calculate_area
shoelace_area(points) ==
  IF Len(points) < 3 THEN RatInt(0) ELSE Rat(Abs(shoelace(points, 1)), 2)

\* AreaMeasure._calculate_perimeter
area_perimeter(points) ==
  IF Len(points) < 2 THEN RatInt(0)
  ELSE RatAdd(polyline_length(points),
              segment_length(points[Len(points)], points[1]))

\* the pairs of squared arm lengths n1 <= n2 <= 18 of parallel arms for which
\* sqrt(n1) * sqrt(n2), evaluated in IEEE 754 doubles, exceeds the integer
\* |dot|, so that dot / (len1 * len2) is one unit in the last place inside
\* (-1, 1)
InwardPairs == {<<2, 2>>, <<2, 8>>, <<5, 5>>, <<8, 8>>, <<10, 10>>}

\* degrees(acos(c)) for the double c next to 1, and 180 minus
\* degrees(acos(c)) for the double c next to -1, to 6 decimals
AcosUlpDegrees == Rat(1, 1000000)

\* AngleMeasure._calculate_angle: to 6 decimals of a degree for arms that are
\* parallel or have integer lengths, to the nearest degree otherwise
calculate_angle(points) ==
  IF Len(points) < 3 THEN RatInt(0)
  ELSE LET v1x == points[1][1] - points[2][1]
           v1y == points[1][2] - points[2][2]
           v2x == points[3][1] - points[2][1]
           v2y == points[3][2] - points[2][2]
           dot == v1x * v2x + v1y * v2y
           sq1 == v1x * v1x + v1y * v1y
           sq2 == v2x * v2x + v2y * v2y
           len1 == math_sqrt(RatInt(sq1))
           len2 == math_sqrt(RatInt(sq2))
       IN IF len1 = RatInt(0) \/ len2 = RatInt(0) THEN RatInt(0)
          ELSE IF /\ dot * dot = sq1 * sq2
                  /\ (IF sq1 < sq2 THEN <<sq1, sq2>> ELSE <<sq2, sq1>>) \in InwardPairs
          THEN IF dot > 0 THEN AcosUlpDegrees
               ELSE RatSub(RatInt(180), AcosUlpDegrees)
          ELSE LET q == RatDiv(RatInt(dot), RatMul(len1, len2))
                   cos_angle == IF RatLess(q, RatInt(-1)) THEN RatInt(-1)
                                ELSE RatMin(RatInt(1), q)
               IN RatInt(acos_degrees(cos_angle))

\* EllipseMeasure._get_axes
get_axes(points) ==
  IF Len(points) < 2 THEN <<RatInt(0), RatInt(0)>>
  ELSE <<RatInt(Abs(points[2][1] - points[1][1])),
         RatInt(Abs(points[2][2] - points[1][2]))>>

\* EllipseMeasure._calculate_perimeter
ellipse_perimeter(points) ==
  LET a == get_axes(points)[1]
      b == get_axes(points)[2]
      sum == RatAdd(a, b)
      diff == RatSub(a, b)
  IN IF a = RatInt(0) /\ b = RatInt(0) THEN RatInt(0)
     ELSE LET h == RatDiv(RatMul(diff, diff), RatMul(sum, sum))
              root == math_sqrt(RatSub(RatInt(4), RatMul(RatInt(3), h)))
          IN RatMul(RatMul(math_pi, sum),
                    RatAdd(RatInt(1),
                           RatDiv(RatMul(RatInt(3), h), RatAdd(RatInt(10), root))))

\* get_measurements of each class, with the quantities each formatter is given
get_measurements(shape) ==
  LET points == shape.points
  IN CASE shape.cls = "Line" -> [Length |-> line_length(points)]
       [] shape.cls = "Rectangle" ->
            [Width |-> get_dimensions(points)[1],
             Height |-> get_dimensions(points)[2],
             Area |-> RatMul(get_dimensions(points)[1], get_dimensions(points)[2])]
       [] shape.cls = "Polygon" ->
            IF shape.closed /\ Len(points) >= 3
            THEN [Perimeter |-> polygon_perimeter(points, shape.closed),
                  Area |-> shoelace_area(points)]
            ELSE [Perimeter |-> polygon_perimeter(points, shape.closed)]
       [] shape.cls = "Distance" -> [Distance |-> line_length(points)]
       [] shape.cls = "Angle" -> [Angle |-> calculate_angle(points)]
       [] shape.cls = "Area" ->
            [Area |-> shoelace_area(points), Perimeter |-> area_perimeter(points)]
       [] shape.cls = "Perimeter" ->
            [TotalLength |-> polyline_length(points),
             Segments |-> RatInt(IF Len(points) > 1 THEN Len(points) - 1 ELSE 0)]
       [] shape.cls = "Ellipse" ->
            [MajorAxis |-> RatMul(RatInt(2), get_axes(points)[1]),
             MinorAxis |-> RatMul(RatInt(2), get_axes(points)[2]),
             Area |-> RatMul(math_pi, RatMul(get_axes(points)[1], get_axes(points)[2])),
             Perimeter |-> ellipse_perimeter(points)]

\* Annotation.__init__ / Measure.__init__ through a subclass; closed is the
\* argument of PolygonAnnotation and the constant of AreaMeasure
CreateShape(cls, closed) ==
  /\ cls = "Polygon" \/ closed = (cls = "Area")
  /\ measured' = [shape |-> Some([cls |-> cls, points |-> <<>>, closed |-> closed]),
                  result |-> None]
  /\ UNCHANGED <<uiVars, coord_converter, spacingVars, lutVars, fast_view,
                 overlay_poll, loading, frame_cache>>

\* Annotation.add_point / Measure.add_point
AddPoint(p) ==
  /\ measured.shape # None
  /\ Len(measured.shape[1].points) < MaxPoints
  /\ measured' = [shape |-> Some([measured.shape[1] EXCEPT !.points = Append(@, p)]),
                  result |-> None]
  /\ UNCHANGED <<uiVars, coord_converter, spacingVars, lutVars, fast_view,
                 overlay_poll, loading, frame_cache>>

\* get_measurements of the shape
GetMeasurements ==
  /\ measured.shape # None
  /\ measured' = [measured EXCEPT !.result = Some(get_measurements(measured.shape[1]))]
  /\ UNCHANGED <<uiVars, coord_converter, spacingVars, lutVars, fast_view,
                 overlay_poll, loading, frame_cache>>

MeasureNext ==
  \/ \E cls \in ShapeClasses, closed \in BOOLEAN : CreateShape(cls, closed)
  \/ \E p \in ShapePoints : AddPoint(p)
  \/ GetMeasurements

SpecMeasure == Init /\ [][MeasureNext]_vars

\* C20: get_measurements of a shape with fewer points than its class's
\* minimum reports nothing or only zeros
C20_BelowMinimumIsZero ==
  (/\ measured.result # None
   /\ Len(measured.shape[1].points) < ClassMinPoints[measured.shape[1].cls])
  => \A k \in DOMAIN measured.result[1] : measured.result[1][k] = RatInt(0)

\* ---------------------------------------------------------------------
\* the shoelace area and the perimeters

\* the vertex order started at vertex k + 1
Rotate(points, k) ==
  [i \in 1..Len(points) |-> points[((i + k - 1) % Len(points)) + 1]]

\* the vertex order reversed
Reverse(points) ==
  [i \in 1..Len(points) |-> points[Len(points) + 1 - i]]

\* x_i * y_(i+1) - x_(i+1) * y_i, indices mod N
CrossTerm(points, i) ==
  LET j == IF i = Len(points) THEN 1 ELSE i + 1
  IN points[i][1] * points[j][2] - points[j][1] * points[i][2]

RECURSIVE SumOver(_, _)
\* the sum of CrossTerm over a set of indices
SumOver(points, indices) ==
  IF indices = {} THEN 0
  ELSE LET i == CHOOSE i \in indices : TRUE
       IN CrossTerm(points, i) + SumOver(points, indices \ {i})

\* the axis-aligned square of side s at (x, y), in order
Square(x, y, s) == <<<<x, y>>, <<x + s, y>>, <<x + s, y + s>>, <<x, y + s>>>>

\* the square of side 10 at the origin
TestSquare == Square(0, 0, 10)

\* the shape of a polygon class whose measurements were just computed
MeasuredPolygon ==
  /\ measured.result # None
  /\ measured.shape[1].cls \in {"Polygon", "Area"}
  /\ Len(measured.shape[1].points) >= 3

\* C21: for a polygon of N >= 3 points _calculate_area is |sum of the cross
\* terms, indices mod N| / 2, the same for every rotation and for the reversal
\* of the vertex order; for an axis-aligned square of side s in order it is
\* s * s and the closed perimeter is 4 * s (side 10: 40 and 100)
C21_Shoelace ==
  /\ MeasuredPolygon =>
       LET points == measured.shape[1].points
           area == shoelace_area(points)
       IN /\ area = Rat(Abs(SumOver(points, DOMAIN points)), 2)
          /\ measured.shape[1].closed => measured.result[1].Area = area
          /\ \A k \in 0..Len(points) - 1 : shoelace_area(Rotate(points, k)) = area
          /\ shoelace_area(Reverse(points)) = area
          /\ \A s \in 1..MaxCoord :
               points = Square(0, 0, s) =>
                 /\ area = RatInt(s * s)
                 /\ polygon_perimeter(points, TRUE) = RatInt(4 * s)
                 /\ area_perimeter(points) = RatInt(4 * s)
                 /\ measured.shape[1].closed =>
                      measured.result[1].Perimeter = RatInt(4 * s)
  /\ shoelace_area(TestSquare) = RatInt(100)
  /\ polygon_perimeter(TestSquare, TRUE) = RatInt(40)
  /\ area_perimeter(TestSquare) = RatInt(40)

\* the measurements of a closed unit square were computed
C21_Witness ==
  /\ MeasuredPolygon
  /\ measured.shape[1].closed
  /\ measured.shape[1].points = Square(0, 0, 1)
  /\ measured.result[1].Area = RatInt(1)

\* ---------------------------------------------------------------------
\* the angle of three points
\* coordinates of the points of an angle
MaxAngleCoord == 2

AnglePoints == {<<x, y>> : x, y \in 0..MaxAngleCoord}

\* AngleMeasure.__init__
CreateAngle ==
  /\ measured' = [shape |-> Some([cls |-> "Angle", points |-> <<>>, closed |-> FALSE]),
                  result |-> None]
  /\ UNCHANGED <<uiVars, coord_converter, spacingVars, lutVars, fast_view,
                 overlay_poll, loading, frame_cache>>

\* Measure.add_point, up to the three points of an angle
AddAnglePoint(p) ==
  /\ measured.shape # None
  /\ Len(measured.shape[1].points) < ClassMinPoints.Angle
  /\ measured' = [shape |-> Some([measured.shape[1] EXCEPT !.points = Append(@, p)]),
                  result |-> None]
  /\ UNCHANGED <<uiVars, coord_converter, spacingVars, lutVars, fast_view,
                 overlay_poll, loading, frame_cache>>

AngleNext ==
  \/ CreateAngle
  \/ \E p \in AnglePoints : AddAnglePoint(p)
  \/ GetMeasurements

SpecAngle == Init /\ [][AngleNext]_vars

\* the angle of three points was just computed
MeasuredAngle ==
  /\ measured.result # None
  /\ measured.shape[1].cls = "Angle"
  /\ Len(measured.shape[1].points) = 3

\* the arms start - vertex and end - vertex
Arm1 ==
  <<measured.shape[1].points[1][1] - measured.shape[1].points[2][1],
    measured.shape[1].points[1][2] - measured.shape[1].points[2][2]>>
Arm2 ==
  <<measured.shape[1].points[3][1] - measured.shape[1].points[2][1],
    measured.shape[1].points[3][2] - measured.shape[1].points[2][2]>>

Dot(v, w) == v[1] * w[1] + v[2] * w[2]
Cross(v, w) == v[1] * w[2] - v[2] * w[1]
ZeroArm(v) == v = <<0, 0>>
OppositeArms == ~ZeroArm(Arm1) /\ ~ZeroArm(Arm2) /\ Cross(Arm1, Arm2) = 0 /\ Dot(Arm1, Arm2) < 0

\* the squared length of v is the square of an integer
IntegerLength(v) == ISqrt(Dot(v, v)) * ISqrt(Dot(v, v)) = Dot(v, v)

\* what C22 says of every case but opposite arms: the angle lies in [0, 180],
\* is 0 when an arm is zero, 90 for perpendicular arms, and the same when
\* start and end are swapped
AngleBasics ==
  LET points == measured.shape[1].points
      angle == measured.result[1].Angle
  IN /\ ~RatLess(angle, RatInt(0)) /\ ~RatLess(RatInt(180), angle)
     /\ (ZeroArm(Arm1) \/ ZeroArm(Arm2)) => angle = RatInt(0)
     /\ (~ZeroArm(Arm1) /\ ~ZeroArm(Arm2) /\ Dot(Arm1, Arm2) = 0) => angle = RatInt(90)
     /\ calculate_angle(<<points[3], points[2], points[1]>>) = angle

\* C22 as stated: _calculate_angle stays within [0, 180], returns 0 for a zero
\* arm, 90 for perpendicular arms, 180 for arms in exactly opposite
\* directions, and the same when start and end are swapped
C22_Angle ==
  MeasuredAngle =>
    /\ AngleBasics
    /\ OppositeArms => measured.result[1].Angle = RatInt(180)

\* C22 amended: as stated, except that for opposite arms the result is 180
\* when both arms have integer length and within 0.00001 of 180 otherwise
C22_AngleRounded ==
  MeasuredAngle =>
    /\ AngleBasics
    /\ OppositeArms =>
         /\ RatLess(RatSub(RatInt(180), measured.result[1].Angle), Rat(1, 100000))
         /\ (IntegerLength(Arm1) /\ IntegerLength(Arm2)) =>
              measured.result[1].Angle = RatInt(180)

\* the angle of opposite arms of integer length was computed, and is 180
C22_Witness ==
  /\ MeasuredAngle
  /\ OppositeArms
  /\ IntegerLength(Arm1)
  /\ measured.result[1].Angle = RatInt(180)

\* C23: the "Major Axis" an ellipse reports is never smaller than its
\* "Minor Axis"
C23_MajorNotBelowMinor ==
  (/\ measured.result # None
   /\ measured.shape[1].cls = "Ellipse"
   /\ Len(measured.shape[1].points) >= 2)
  => ~RatLess(measured.result[1].MajorAxis, measured.result[1].MinorAxis)

\* ---------------------------------------------------------------------
\* the hit test of FASTAnnotationManager

\* type(annotation).__name__ of the shape classes
TypeName ==
  [Line |-> "LineAnnotation", Rectangle |-> "RectAnnotation",
   Polygon |-> "PolygonAnnotation", Distance |-> "DistanceMeasure",
   Angle |-> "AngleMeasure", Area |-> "AreaMeasure",
   Perimeter |-> "PerimeterMeasure", Ellipse |-> "EllipseMeasure"]

Min(a, b) == IF b < a THEN b ELSE a
Max(a, b) == IF b > a THEN b ELSE a

\* RectAnnotation.get_corners
get_corners(points) ==
  IF Len(points) < 2 THEN <<>>
  ELSE LET min_x == Min(points[1][1], points[2][1])
           max_x == Max(points[1][1], points[2][1])
           min_y == Min(points[1][2], points[2][2])
           max_y == Max(points[1][2], points[2][2])
       IN <<<<min_x, min_y>>, <<max_x, min_y>>, <<max_x, max_y>>, <<min_x, max_y>>>>

\* the squared distance _point_near_line takes the root of: from point to
\* the closest point of the segment p1 p2
closest_distance_sq(p1, p2, point) ==
  LET dx == p2[1] - p1[1]
      dy == p2[2] - p1[2]
      line_len_sq == dx * dx + dy * dy
      ex == point[1] - p1[1]
      ey == point[2] - p1[2]
  IN IF line_len_sq = 0 THEN RatInt(ex * ex + ey * ey)
     ELSE LET q == Rat(ex * dx + ey * dy, line_len_sq)
              t == IF RatLess(q, RatInt(0)) THEN RatInt(0) ELSE RatMin(RatInt(1), q)
              cx == RatSub(RatInt(ex), RatMul(t, RatInt(dx)))
              cy == RatSub(RatInt(ey), RatMul(t, RatInt(dy)))
          IN RatAdd(RatMul(cx, cx), RatMul(cy, cy))

\* FASTAnnotationManager._point_near_line
point_near_line(p1, p2, point, tolerance) ==
  ~RatLess(RatInt(tolerance), math_sqrt(closest_distance_sq(p1, p2, point)))

\* FASTAnnotationManager._point_near_annotation
point_near_annotation(annotation, point, tolerance) ==
  LET ann_type == TypeName[annotation.cls]
      points == annotation.points
      n == Len(points)
  IN IF ann_type = "LineAnnotation" /\ n >= 2
     THEN point_near_line(points[1], points[2], point, tolerance)
     ELSE IF ann_type = "RectAnnotation" /\ n >= 2
     THEN \E i \in 1..4 :
            point_near_line(get_corners(points)[i], get_corners(points)[(i % 4) + 1],
                            point, tolerance)
     ELSE IF ann_type = "PolygonAnnotation" /\ n >= 2
     THEN \/ \E i \in 1..n - 1 :
               point_near_line(points[i], points[i + 1], point, tolerance)
          \/ /\ annotation.closed /\ n >= 3
             /\ point_near_line(points[n], points[1], point, tolerance)
     ELSE FALSE

\* tolerances of a hit test, in pixels
MaxTolerance == 1

\* _point_near_annotation of the shape, a point and a tolerance
PointNearAnnotation(point, tolerance) ==
  /\ measured.shape # None
  /\ measured' =
       [measured EXCEPT !.result =
          Some([point |-> point, tolerance |-> tolerance,
                near |-> point_near_annotation(measured.shape[1], point, tolerance)])]
  /\ UNCHANGED <<uiVars, coord_converter, spacingVars, lutVars, fast_view,
                 overlay_poll, loading, frame_cache>>

HitNext ==
  \/ \E cls \in ShapeClasses, closed \in BOOLEAN : CreateShape(cls, closed)
  \/ \E p \in ShapePoints : AddPoint(p)
  \/ \E p \in ShapePoints, tolerance \in 0..MaxTolerance :
       PointNearAnnotation(p, tolerance)

SpecHit == Init /\ [][HitNext]_vars

\* the segments of a shape: 1 for Line and Distance, the 4 edges between the
\* corners for Rectangle, N - 1 edges plus the closing edge when closed for
\* Polygon, Area and Perimeter
Segments(shape) ==
  LET points == shape.points
      n == Len(points)
  IN IF n < 2 THEN {}
     ELSE IF shape.cls \in {"Line", "Distance"} THEN {<<points[1], points[2]>>}
     ELSE IF shape.cls = "Rectangle"
     THEN {<<get_corners(points)[i], get_corners(points)[(i % 4) + 1]>> : i \in 1..4}
     ELSE IF shape.cls \in {"Polygon", "Area", "Perimeter"}
     THEN {<<points[i], points[i + 1]>> : i \in 1..n - 1}
            \cup (IF shape.closed /\ n >= 3 THEN {<<points[n], points[1]>>} ELSE {})
     ELSE {}

\* point lies on the segment
OnSegment(seg, point) ==
  /\ (seg[2][1] - seg[1][1]) * (point[2] - seg[1][2])
       = (seg[2][2] - seg[1][2]) * (point[1] - seg[1][1])
  /\ Min(seg[1][1], seg[2][1]) <= point[1] /\ point[1] <= Max(seg[1][1], seg[2][1])
  /\ Min(seg[1][2], seg[2][2]) <= point[2] /\ point[2] <= Max(seg[1][2], seg[2][2])

\* C24: a point on a segment of a Line, Distance, Rectangle, Polygon, Area or
\* Perimeter shape is reported near (already with tolerance 0), and a point
\* farther than the tolerance from every segment is reported not near
C24_HitTest ==
  (/\ measured.result # None
   /\ "near" \in DOMAIN measured.result[1]
   /\ measured.shape[1].cls \in
        {"Line", "Distance", "Rectangle", "Polygon", "Area", "Perimeter"})
  => LET hit == measured.result[1]
         segs == Segments(measured.shape[1])
     IN /\ (\E seg \in segs : OnSegment(seg, hit.point)) => hit.near
        /\ (\A seg \in segs :
              RatLess(RatInt(hit.tolerance * hit.tolerance),
                      closest_distance_sq(seg[1], seg[2], hit.point)))
           => ~hit.near

\* ---------------------------------------------------------------------
\* commits and the preview

\* C25: within the handling of one pointer event every commit event
\* (annotation_added, measure_added) is followed by preview_cleared, with no
\* preview_updated between the two
C25_CommitThenClear ==
  \A i \in DOMAIN emitted :
    emitted[i].sig \in CommitSigs =>
      \E j \in (i + 1)..Len(emitted) :
        /\ emitted[j].sig = "preview_cleared"
        /\ \A k \in (i + 1)..(j - 1) : emitted[k].sig # "preview_updated"

\* a double click has committed a shape and cleared the preview
C25_Witness ==
  /\ Emits(emitted, CommitSigs)
  /\ last = "dblclick"

\* C26: when a shape is appended to the overlay's annotations or measurements
\* the active tool is the tool of the shape's kind, and no shape is appended
\* while the tool is None
C26_CommitUnderOwnTool ==
  [][\A ref \in DOMAIN objects' :
       (\/ annotations' = Append(annotations, ref)
        \/ measurements' = Append(measurements, ref))
       => /\ current_tool' \in DOMAIN ClassOf
          /\ ClassOf[current_tool'] = objects'[ref].cls]_vars

\* C27: the layer panel lists the overlay's annotations, each exactly once
C27_PanelListsEachOnce ==
  /\ Len(panel_annotations) = Len(annotations)
  /\ \A ref \in Range(annotations) :
       Cardinality({i \in DOMAIN panel_annotations : panel_annotations[i] = ref}) = 1

\* ---------------------------------------------------------------------
\* cancelling a DICOM load: the worker thread and the UI thread

\* DICOM loads started in one run
MaxLoads == 2

\* self._load_worker: the worker created last
load_worker == Len(loading.workers)

\* QThread.isRunning of the worker created last
isRunning == load_worker > 0 /\ loading.workers[load_worker].pc # "done"

\* what _load_dicom can return
DicomLoadResults ==
  [success : BOOLEAN, pixel_spacing : ResultSpacings,
   image_width : {0, MaxDim}, image_height : {0, MaxDim}]

\* load_file and _start_dicom_loading, on the UI thread: refused while the
\* worker runs; else a new dialog and a new worker, connected and started
StartDicomLoading ==
  /\ ~isRunning
  /\ load_worker < MaxLoads
  /\ loading' = [loading EXCEPT
                   !.workers = Append(@, [pc |-> "load", cancelled |-> FALSE,
                                          result |-> None]),
                   !.dialog = TRUE]
  /\ UNCHANGED <<uiVars, coord_converter, spacingVars, lutVars, fast_view,
                 overlay_poll, measured, frame_cache>>

\* the worker thread in run: _load_dicom returns its result; it succeeds only
\* when no checkpoint saw _cancelled
WorkerLoadDicom(w, result) ==
  /\ w \in DOMAIN loading.workers
  /\ loading.workers[w].pc = "load"
  /\ result.success => ~loading.workers[w].cancelled
  /\ loading' = [loading EXCEPT !.workers[w].pc = "check",
                                !.workers[w].result = Some(result)]
  /\ UNCHANGED <<uiVars, coord_converter, spacingVars, lutVars, fast_view,
                 overlay_poll, measured, frame_cache>>

\* the worker thread in run: if not self._cancelled
WorkerCheck(w) ==
  /\ w \in DOMAIN loading.workers
  /\ loading.workers[w].pc = "check"
  /\ loading' = [loading EXCEPT
                   !.workers[w].pc =
                     IF loading.workers[w].cancelled THEN "done" ELSE "emit"]
  /\ UNCHANGED <<uiVars, coord_converter, spacingVars, lutVars, fast_view,
                 overlay_poll, measured, frame_cache>>

\* the worker thread in run: finished_loading.emit(result), which posts the
\* call of _on_dicom_load_complete to the UI thread; run then returns
WorkerEmit(w) ==
  /\ w \in DOMAIN loading.workers
  /\ loading.workers[w].pc = "emit"
  /\ loading' = [loading EXCEPT
                   !.workers[w].pc = "done",
                   !.queue = Append(@, [worker |-> w,
                                        result |-> loading.workers[w].result[1]])]
  /\ UNCHANGED <<uiVars, coord_converter, spacingVars, lutVars, fast_view,
                 overlay_poll, measured, frame_cache>>

\* UltrasoundViewerWindow._on_load_cancelled, on the UI thread, for the
\* progress dialog's cancelled signal: sets the flag of the worker created
\* last, waits for it at most two seconds, and closes the dialog
OnLoadCancelled ==
  /\ loading.dialog
  /\ loading' = [loading EXCEPT
                   !.workers = IF load_worker > 0
                               THEN [@ EXCEPT ![load_worker].cancelled = TRUE]
                               ELSE @,
                   !.dialog = FALSE,
                   !.cancel_handled = IF load_worker > 0
                                      THEN @ \cup {load_worker} ELSE @]
  /\ UNCHANGED <<uiVars, coord_converter, spacingVars, lutVars, fast_view,
                 overlay_poll, measured, frame_cache>>

\* UltrasoundViewerWindow._on_dicom_load_complete, on the UI thread, for the
\* posted finished_loading at the head of the queue: closes the dialog and,
\* when the result is a success, applies it
OnDicomLoadComplete(ww, wh) ==
  /\ loading.queue # <<>>
  /\ LET event == Head(loading.queue)
         result == event.result
     IN  IF ~result.success
         THEN /\ loading' = [loading EXCEPT !.queue = Tail(@), !.dialog = FALSE]
              /\ UNCHANGED <<uiVars, coord_converter, spacingVars, lutVars, fast_view,
                             overlay_poll, measured, frame_cache>>
         ELSE /\ loading' =
                   [loading EXCEPT
                      !.queue = Tail(@),
                      !.dialog = FALSE,
                      !.applied = @ \cup {event.worker},
                      !.applied_after_cancel =
                        IF event.worker \in loading.cancel_handled
                        THEN @ \cup {event.worker} ELSE @]
              /\ ApplyDicomResult(result.pixel_spacing, result.image_width,
                                  result.image_height, ww, wh)

CancelNext ==
  \/ StartDicomLoading
  \/ \E w \in 1..MaxLoads, result \in DicomLoadResults : WorkerLoadDicom(w, result)
  \/ \E w \in 1..MaxLoads : WorkerCheck(w)
  \/ \E w \in 1..MaxLoads : WorkerEmit(w)
  \/ OnLoadCancelled
  \/ \E ww, wh \in 1..MaxDim : OnDicomLoadComplete(ww, wh)

SpecCancel == Init /\ [][CancelNext]_vars

\* C28: once the UI thread has handled the cancel of a DICOM load, the result
\* of that load's worker is never applied afterwards
C28_CancelIsFinal ==
  loading.applied_after_cancel = {}

\* ---------------------------------------------------------------------
\* C29: wl_changed is emitted only by a pointer-move inside a drag whose
\* pointer-down was received under 'wl' with the tool unchanged since, before
\* the next pointer-up; and the deltas emitted during the drag add up to
\* (x_last - x_press, -(y_last - y_press))
C29_WlDeltasBelongToDrag ==
  /\ Emits(emitted, {"wl_changed"}) => (last = "move" /\ wl_drag.active)
  /\ wl_drag.active =>
       wl_drag.sum = <<wl_drag.last[1] - wl_drag.press[1],
                       -(wl_drag.last[2] - wl_drag.press[2])>>

\* ---------------------------------------------------------------------
\* FrameCache of the smart tools

\* the largest max_size a FrameCache is constructed with
MaxSize == 2
\* frame ids put and looked up
MaxFrameId == 3
FrameIds == 1..MaxFrameId
\* two frames that differ
Frames == {"f1", "f2"}

\* frame_id in self._cache
InCache(cache, frame_id) == \E i \in DOMAIN cache : cache[i].frame_id = frame_id

\* self._cache[frame_id]
Lookup(cache, frame_id) ==
  cache[CHOOSE i \in DOMAIN cache : cache[i].frame_id = frame_id].frame

\* OrderedDict.move_to_end(frame_id)
move_to_end(cache, frame_id) ==
  LET entry == cache[CHOOSE i \in DOMAIN cache : cache[i].frame_id = frame_id]
  IN  Append(SelectSeq(cache, LAMBDA e : e.frame_id # frame_id), entry)

\* FrameCache.put, on the _cache
put(cache, max_size, frame_id, frame) ==
  IF InCache(cache, frame_id) THEN move_to_end(cache, frame_id)
  ELSE LET added == Append(cache, [frame_id |-> frame_id, frame |-> frame])
       IN  IF Len(added) > max_size THEN Tail(added) ELSE added

\* what the last operation of a cache was and what the one before it was
Did(op, frame_id, frame, returned) ==
  [op |-> op, frame_id |-> frame_id, frame |-> frame, returned |-> returned,
   before |-> frame_cache.cache,
   prev |-> IF frame_cache.did = None THEN None
            ELSE Some([op |-> frame_cache.did[1].op,
                       frame_id |-> frame_cache.did[1].frame_id,
                       frame |-> frame_cache.did[1].frame])]

\* FrameCache.__init__
NewFrameCache(max_size) ==
  /\ frame_cache' = [made |-> TRUE, cache |-> <<>>, max_size |-> max_size,
                     did |-> None]
  /\ UNCHANGED <<uiVars, coord_converter, spacingVars, lutVars, fast_view,
                 overlay_poll, measured, loading>>

\* FrameCache.get
Get(frame_id) ==
  /\ frame_cache.made
  /\ frame_cache' =
       IF InCache(frame_cache.cache, frame_id)
       THEN [frame_cache EXCEPT
               !.cache = move_to_end(@, frame_id),
               !.did = Some(Did("get", frame_id, "",
                                Some(Lookup(frame_cache.cache, frame_id))))]
       ELSE [frame_cache EXCEPT !.did = Some(Did("get", frame_id, "", None))]
  /\ UNCHANGED <<uiVars, coord_converter, spacingVars, lutVars, fast_view,
                 overlay_poll, measured, loading>>

\* FrameCache.put
Put(frame_id, frame) ==
  /\ frame_cache.made
  /\ frame_cache' =
       [frame_cache EXCEPT
          !.cache = put(@, frame_cache.max_size, frame_id, frame),
          !.did = Some(Did("put", frame_id, frame, None))]
  /\ UNCHANGED <<uiVars, coord_converter, spacingVars, lutVars, fast_view,
                 overlay_poll, measured, loading>>

\* FrameCache.clear
Clear ==
  /\ frame_cache.made
  /\ frame_cache' = [frame_cache EXCEPT !.cache = <<>>,
                                        !.did = Some(Did("clear", 0, "", None))]
  /\ UNCHANGED <<uiVars, coord_converter, spacingVars, lutVars, fast_view,
                 overlay_poll, measured, loading>>

CacheNext ==
  \/ \E max_size \in 1..MaxSize : NewFrameCache(max_size)
  \/ \E frame_id \in FrameIds : Get(frame_id)
  \/ \E frame_id \in FrameIds, frame \in Frames : Put(frame_id, frame)
  \/ Clear

SpecCache == Init /\ [][CacheNext]_vars

\* the cached frame ids
CachedIds(cache) == {cache[i].frame_id : i \in DOMAIN cache}

\* the entries are in the order of their last use, the oldest first: a get
\* that hits and a put both use the entry of their frame id
UsedLast(frame_id) ==
  /\ frame_cache.cache # <<>>
  /\ frame_cache.cache[Len(frame_cache.cache)].frame_id = frame_id

\* C30: the cache holds at most max_size entries; a put that overflows evicts
\* the least recently used entry, get and put both counting as use; and a
\* get(k) immediately after put(k, f) returns f, also when k was cached with
\* another frame
C30_BoundedLru ==
  frame_cache.made =>
    /\ Len(frame_cache.cache) <= frame_cache.max_size
    /\ Cardinality(CachedIds(frame_cache.cache)) = Len(frame_cache.cache)
    /\ frame_cache.did # None =>
         LET did == frame_cache.did[1] IN
         /\ (did.op = "put" \/ (did.op = "get" /\ did.returned # None)) =>
              UsedLast(did.frame_id)
         /\ (did.op = "put" /\ ~InCache(did.before, did.frame_id)
             /\ Len(did.before) = frame_cache.max_size) =>
              /\ ~InCache(frame_cache.cache, did.before[1].frame_id)
              /\ \A i \in 2..Len(did.before) :
                   frame_cache.cache[i - 1] = did.before[i]
         /\ (did.op = "get" /\ did.prev # None /\ did.prev[1].op = "put"
             /\ did.prev[1].frame_id = did.frame_id) =>
              did.returned = Some(did.prev[1].frame)
====
